---------------------------- MODULE Spec2Model ----------------------------
(***************************************************************************)
(* Walk-to-wake alarm: the HomeScreen alarm checker, the AlarmManager       *)
(* store operations, the settings screen and the walking dismissal gate.    *)
(*                                                                         *)
(* JavaScript runs one task at a time.  An action of this module is one     *)
(* task: a timer or UI callback, or the continuation of an await once the   *)
(* storage operation it waits for has been carried out.  A storage          *)
(* operation takes effect (read or write of the store) in the action that   *)
(* resumes its caller.  Continuations that the code runs in the same task   *)
(* (promise microtasks) are separate actions here, and no other task is     *)
(* enabled until they have run (JsIdle).                                    *)
(***************************************************************************)
EXTENDS Integers, Sequences, FiniteSets, TLC

(* ------------------------------ bounds --------------------------------- *)

\* calendar days of a run are 0..MaxDay
MaxDay == 2
\* concurrent executions of checkAlarmTime the model has room for
NPolls == 2
\* getTimeUntilAlarm is called on the days 0..MaxTimeDay
MaxTimeDay == 6
\* step-count subscriptions one usePedometer component makes
MaxSubs == 5
\* calls of startTracking / stopTracking within one task (one render's closures)
MaxCalls == 2
\* excursions (a peak and the valley after it) a walker makes in all
MaxExcursions == 11
\* the same for the erratic walker, who has more ways to move
MaxErratic == 5
\* detection sessions of one StepDetector (startDetection calls)
MaxSessions == 2
\* logWakeUp calls, and those among them whose store call fails
MaxLogCalls == 32
MaxLogFailures == 2

(* ------------------------- program constants --------------------------- *)

STEP_OPTIONS == <<10, 15, 20, 30, 50>>
\* requiredSteps={activeAlarm?.requiredSteps || 10}
DefaultRequiredSteps == 10
\* useState defaults of the settings screen
DefaultHour == 6
DefaultMinute == 0
DefaultDays == {1, 2, 3, 4, 5}
\* StepDetector SETTINGS
MIN_STEP_INTERVAL == 280
MIN_STEPS_TO_VALIDATE == 2
MOVEMENT_WINDOW == 30
UPDATE_INTERVAL == 40
\* setTimeout(() => onDismiss(), 1500) of the AlarmScreen without isComplete
DismissDelay == 1500
\* logs.slice(-30)
LogsKept == 30
\* the anti-cheat StepDetector: MAX_STEP_INTERVAL in ms, MIN_X_MOVEMENT in
\* hundredths of g
MAX_STEP_INTERVAL == 1500
MIN_X_MOVEMENT == 15

(* ------------------------------ the clock ------------------------------ *)

\* weekday (Date.getDay) of day 0: a Thursday
FirstWeekday == 4
\* the instants of a day the clock visits, in order
ClockHours == {6, 7}
ClockMinutes == {0, 1, 2}

Weekday(day) == (FirstWeekday + day) % 7

\* Date.toDateString(): weekday name and calendar date, one string per day
NoDate == <<>>
DateString(day) == <<Weekday(day), day>>

Instants == [day : 0..MaxDay, hour : ClockHours, minute : ClockMinutes]
Stamp(t) == (t.day * 24 + t.hour) * 60 + t.minute
Later(t) == {u \in Instants : Stamp(u) > Stamp(t)}
NextInstant(t) == CHOOSE u \in Later(t) : \A w \in Later(t) : Stamp(u) <= Stamp(w)

(* ------------------------------ alarms --------------------------------- *)

NoAlarm == [present |-> FALSE, hour |-> 0, minute |-> 0, enabled |-> FALSE,
            requiredSteps |-> 0, days |-> {}, lastTriggeredDate |-> NoDate]

MakeAlarm(h, m, en, steps, days, last) ==
    [present |-> TRUE, hour |-> h, minute |-> m, enabled |-> en,
     requiredSteps |-> steps, days |-> days, lastTriggeredDate |-> last]

\* the step options the user of a run picks from
StepChoices == {STEP_OPTIONS[1], STEP_OPTIONS[2]}

VARIABLES
    clock,              \* wall clock: [day, hour, minute]
    store,              \* AsyncStorage["walkAlarm"]: an alarm or NoAlarm
    mounted,            \* HomeScreen is mounted (effect run, cleanup not yet)
    isLoading,          \* HomeScreen state
    showAlarm,          \* HomeScreen state
    activeAlarm,        \* HomeScreen state
    capturedShowAlarm,  \* showAlarm as seen by the closures the mount effect installed
    appState,           \* appState.current
    checkIntervalRef,   \* TRUE when checkIntervalRef.current holds a live timer
    isCheckingRef,      \* isCheckingRef.current
    initPc,             \* initializeApp: "loading" (awaiting loadAlarm) or "done"
    poll,               \* executions of checkAlarmTime: slot -> position and locals
    ring,               \* AlarmScreen + StepDetector: [isComplete, stepCount]
    soundStops,         \* handleTargetReached calls awaiting stopAlarmSound
    dismissTimers,      \* pending setTimeout(onDismiss, 2000)
    ui,                 \* SetAlarmScreen state
    uiLoading,          \* the mounted settings screen awaits its loadAlarm
    staleLoad,          \* a loadAlarm call of a settings screen unmounted since is in flight
    saves,              \* the saveAlarm call awaiting setItem: the alarm it writes
    reset,              \* resetAlarmForTesting: [pc, alarm, live]
    rangToday,          \* history: a poll has raised the ring on the current day
    timeUntil,          \* the last getTimeUntilAlarm call: its inputs and its result
    ped,                \* a component using the usePedometer hook
    det,                \* StepDetector: the refs and state of step detection
    walk,               \* the walker and Date.now() as the StepDetector sees them
    sensor,             \* StepDetector: props, mount state, accelerometer subscriptions
    screen,             \* the AlarmScreen around a StepDetector: calls and timers
    trig,               \* the last shouldTrigger decision: its inputs and its result
    wakeUpLogs,         \* AsyncStorage["wakeUpLogs"] and the logWakeUp calls made
    form,               \* SetAlarmScreen: the fields as the handlers compute them
    anti,               \* the anti-cheat StepDetector: refs, walker and clock
    imp,                \* the improved StepDetector sample by sample
    sound,              \* AlarmScreen: soundRef, the sound and the calls in flight
    test                \* PedometerTest: the refs of detectStep, walker and clock

\* HomeScreen with its screens, the store and the clock
appVars == <<clock, store, mounted, isLoading, showAlarm, activeAlarm,
             capturedShowAlarm, appState, checkIntervalRef, isCheckingRef, initPc,
             poll, ring, soundStops, dismissTimers, ui, uiLoading, staleLoad,
             saves, reset, rangToday>>

\* the components and functions studied on their own
sideVars == <<timeUntil, ped, det, walk, sensor, screen>>

\* functions and handlers studied on their inputs
labVars == <<trig, wakeUpLogs, form, anti, imp, sound, test>>

vars == <<appVars, sideVars, labVars>>


(* ----------------------- AlarmManager.shouldTrigger -------------------- *)

\* alarm.lastTriggeredDate === todayStr  (alarmManager.ts:72)
TriggeredTodayNever(alarm, now) == FALSE
TriggeredEver(alarm, now) == alarm.lastTriggeredDate # NoDate
TriggeredToday(alarm, now) == alarm.lastTriggeredDate = DateString(now.day)

\* isRightTime  (alarmManager.ts:77-79)
IsRightTimeNoGrace(alarm, now) ==
    now.hour = alarm.hour /\ now.minute = alarm.minute
IsRightTime(alarm, now) ==
    /\ now.hour = alarm.hour
    /\ (now.minute = alarm.minute \/ now.minute = alarm.minute + 1)

\* The decision of shouldTrigger on the alarm loadAlarm returned (NoAlarm for
\* a missing record and for a failed read) at the instant `now`.
ShouldTriggerFlag(alarm, now) ==
    IF ~alarm.present \/ ~alarm.enabled THEN FALSE
    ELSE IF Weekday(now.day) \notin alarm.days THEN FALSE
    ELSE IF TriggeredToday(alarm, now) THEN FALSE
    ELSE IF IsRightTime(alarm, now) THEN TRUE
    ELSE FALSE

\* The alarm shouldTrigger hands back: null when missing or disabled.
ShouldTriggerAlarm(alarm) ==
    IF ~alarm.present \/ ~alarm.enabled THEN NoAlarm ELSE alarm

\* AlarmManager.loadAlarm: the stored record, null when none or the read failed
LoadAlarm(ok) == IF ok THEN store ELSE NoAlarm

\* What saveAlarm and markTriggered hand their caller: both catch every
\* error and return nothing, so the promise resolves with undefined whether
\* the store call succeeded or not.
Undefined == "undefined"
SaveAlarmOutcome(ok) == Undefined
MarkTriggeredOutcome(ok) == Undefined

\* shouldTrigger called on stored alarms around the end of an hour
WindowHours == {6, 7, 23}
WindowMinutes == {0, 1, 58, 59}
WindowInstants == [day : 0..MaxDay, hour : WindowHours, minute : WindowMinutes]
WindowAlarms(now) ==
    {MakeAlarm(h, m, en, STEP_OPTIONS[1], days, last) :
        h \in {6, 23}, m \in {0, 58, 59}, en \in BOOLEAN,
        days \in {DefaultDays, {0, 6}},
        last \in {NoDate, DateString(now.day)}}
NoTrig == [called |-> FALSE, alarm |-> NoAlarm,
           now |-> [day |-> 0, hour |-> 0, minute |-> 0], result |-> FALSE]

\* minutes since midnight
MinuteOfDay(t) == t.hour * 60 + t.minute

(* --------------------------- checkAlarmTime ---------------------------- *)

Slots == 1..NPolls

\* alarm is what loadAlarm gave shouldTrigger, now and result its clock reading
\* and its decision, toWrite the record markTriggered hands to setItem.
\* pc: "idle"                 no execution in this slot
\*     "shouldLoad"           awaiting loadAlarm inside shouldTrigger
\*     "decided"              shouldTrigger returned, checkAlarmTime resumes
\*     "markLoad"             awaiting loadAlarm inside markTriggered
\*     "markSet"              awaiting setItem inside markTriggered
\*     "markDone"             markTriggered returned, checkAlarmTime resumes
IdlePoll == [pc |-> "idle", alarm |-> NoAlarm, now |-> [day |-> 0, hour |-> 0, minute |-> 0],
             result |-> FALSE, toWrite |-> NoAlarm]

Running == {p \in Slots : poll[p].pc # "idle"}

\* A promise continuation is due in the current task.
JsIdle == \A p \in Slots : poll[p].pc \notin {"decided", "markDone"}

\* if (isCheckingRef.current || showAlarm) return;   showAlarm is the value
\* the closure captured
CheckGuardNoFlag == capturedShowAlarm
CheckGuard == isCheckingRef \/ capturedShowAlarm

\* checkAlarmTime up to its first await: sets the flag and calls shouldTrigger
CheckAlarmTime ==
    IF CheckGuard \/ Running = Slots
    THEN UNCHANGED <<poll, isCheckingRef>>
    ELSE LET p == CHOOSE q \in Slots : poll[q].pc = "idle"
         IN /\ poll' = [poll EXCEPT ![p] = [IdlePoll EXCEPT !.pc = "shouldLoad"]]
            /\ isCheckingRef' = TRUE

(* ------------------- what HomeScreen renders --------------------------- *)

AlarmShownIn(m, loading, show) == m /\ ~loading /\ show
SettingsShownIn(m, loading, show) == m /\ ~loading /\ ~show
AlarmShown == AlarmShownIn(mounted, isLoading, showAlarm)
SettingsShown == SettingsShownIn(mounted, isLoading, showAlarm)

\* requiredSteps={activeAlarm?.requiredSteps || 10}
TargetSteps(alarm) ==
    IF ~alarm.present \/ alarm.requiredSteps = 0
    THEN DefaultRequiredSteps ELSE alarm.requiredSteps

\* StepDetector effect on [stepCount, targetSteps]
TargetReachedAlways(count, target) == count >= 0
TargetReached(count, target) == count >= target

NoRing == [isComplete |-> FALSE, stepCount |-> 0]

UiDefaults == [hour |-> DefaultHour, minute |-> DefaultMinute, enabled |-> FALSE,
               requiredSteps |-> STEP_OPTIONS[1], days |-> DefaultDays,
               lastTriggeredDate |-> NoDate]

NoReset == [pc |-> "idle", alarm |-> NoAlarm, live |-> FALSE]

\* The commit of a HomeScreen render after its state became (m, loading, show,
\* alarm), for the AlarmScreen: it mounts (a fresh StepDetector session, count
\* 0) or unmounts, and the StepDetector effect on [stepCount, targetSteps]
\* runs on a fresh mount and on a changed target; onTargetReached is
\* AlarmScreen.handleTargetReached up to its await of stopAlarmSound.
RingRender(m, loading, show, alarm) ==
    LET was == AlarmShown
        is == AlarmShownIn(m, loading, show)
        count == IF was THEN ring.stepCount ELSE 0
        done == IF was THEN ring.isComplete ELSE FALSE
        hit == is /\ ~done /\ TargetReached(count, TargetSteps(alarm))
    IN /\ ring' = IF is THEN [isComplete |-> done \/ hit, stepCount |-> count]
                  ELSE NoRing
       /\ soundStops' = IF hit THEN soundStops + 1 ELSE soundStops

\* The same commit for the SetAlarmScreen: a mount starts from the useState
\* defaults and calls loadAlarm; what an unmounted screen still awaits runs on
\* (of several such loads in flight at once, one is followed).
SettingsRender(m, loading, show) ==
    LET sWas == SettingsShown
        sIs == SettingsShownIn(m, loading, show)
    IN /\ ui' = IF sIs /\ sWas THEN ui ELSE UiDefaults
       /\ uiLoading' = IF sIs THEN (IF sWas THEN uiLoading ELSE TRUE) ELSE FALSE
       /\ staleLoad' = (staleLoad \/ (sWas /\ ~sIs /\ uiLoading))
       /\ reset' = IF sWas /\ ~sIs /\ reset.pc # "idle"
                   THEN [reset EXCEPT !.live = FALSE] ELSE reset

Render(m, loading, show, alarm) ==
    RingRender(m, loading, show, alarm) /\ SettingsRender(m, loading, show)

\* setState of a HomeScreen that is no longer mounted changes nothing
SetIfMounted(new, old) == IF mounted THEN new ELSE old


renderVars == <<ring, soundStops, ui, uiLoading, staleLoad, reset>>

(* -------------------- AlarmManager.getTimeUntilAlarm ------------------- *)

SecondsPerDay == 86400

\* Date.getTime() in seconds, from 00:00:00 of day 0
SecondsAt(day, hour, minute, second) ==
    ((day * 24 + hour) * 60 + minute) * 60 + second

\* for (let i = 1; i <= 7; i++) { checkDay = (currentDay + i) % 7; if
\* (alarm.days.includes(checkDay)) { daysToAdd = i; break; } }  with
\* daysToAdd = 1 before the loop
RECURSIVE FindNextDay(_, _, _)
FindNextDayTomorrow(days, currentDay, i) == 1
FindNextDay(days, currentDay, i) ==
    IF i > 7 THEN 1
    ELSE IF ((currentDay + i) % 7) \in days THEN i
    ELSE FindNextDay(days, currentDay, i + 1)

\* alarmTime <= now || alarm.lastTriggeredDate === now.toDateString()
PassedToday(alarm, now) ==
    \/ SecondsAt(now.day, alarm.hour, alarm.minute, 0)
           <= SecondsAt(now.day, now.hour, now.minute, now.second)
    \/ alarm.lastTriggeredDate = DateString(now.day)

\* the alarmTime the countdown runs to, in seconds
AlarmTimeFor(alarm, now) ==
    LET today == SecondsAt(now.day, alarm.hour, alarm.minute, 0)
    IN IF PassedToday(alarm, now)
       THEN today + SecondsPerDay * FindNextDay(alarm.days, Weekday(now.day), 1)
       ELSE today

\* getTimeUntilAlarm(alarm) called at the instant now
GetTimeUntilAlarm(alarm, now) ==
    LET totalSeconds == AlarmTimeFor(alarm, now)
                            - SecondsAt(now.day, now.hour, now.minute, now.second)
    IN [hours |-> totalSeconds \div 3600,
        minutes |-> (totalSeconds % 3600) \div 60,
        seconds |-> totalSeconds % 60,
        totalSeconds |-> totalSeconds]

\* the instants and alarms getTimeUntilAlarm is called with
TimeHours == {6, 7}
TimeMinutes == {0, 30}
TimeSeconds == {0, 30}
TimeInstants ==
    [day : 0..MaxTimeDay, hour : TimeHours, minute : TimeMinutes, second : TimeSeconds]
TimeDaySets == {{}, DefaultDays, {1}, {0, 6}, {3, 5}}
TimeAlarms(now) ==
    {MakeAlarm(DefaultHour, m, TRUE, STEP_OPTIONS[1], days, last) :
        m \in TimeMinutes, days \in TimeDaySets,
        last \in {NoDate, DateString(now.day)}}

NoTimeUntil == [called |-> FALSE, alarm |-> NoAlarm,
                now |-> [day |-> 0, hour |-> 0, minute |-> 0, second |-> 0],
                result |-> [hours |-> 0, minutes |-> 0, seconds |-> 0, totalSeconds |-> 0]]

(* ---------------------- SetAlarmScreen: the form ----------------------- *)

\* The fields of the settings screen with selectedDays as the array it is.
\* written holds what the last handler that ran handed to AsyncStorage.setItem
\* (<<>> when it wrote nothing, else the one record); lastSave tells how that
\* handler ended when it was saveAlarm, and is "none" after the others.
InitForm ==
    [hour |-> DefaultHour, minute |-> DefaultMinute, enabled |-> FALSE,
     requiredSteps |-> DefaultRequiredSteps, selectedDays |-> <<1, 2, 3, 4, 5>>,
     lastTriggeredDate |-> NoDate, written |-> <<>>, lastSave |-> "none"]

\* a % n of JavaScript: the sign of the dividend
JsRem(a, n) == IF a >= 0 THEN a % n ELSE 0 - ((0 - a) % n)

\* adjustTime: (prev + delta + 24) % 24 and (prev + delta + 60) % 60
AdjustHour(prev, delta) == JsRem(prev + delta + 24, 24)
AdjustMinute(prev, delta) == JsRem(prev + delta + 60, 60)
\* the AM/PM button: (prev + 12) % 24
TogglePeriod(prev) == JsRem(prev + 12, 24)

\* Array.prototype.sort() without a comparator orders by the elements'
\* strings; for the one-digit day numbers that is their numeric order.
RECURSIVE SortDays(_)
InsertDay(sorted, d) ==
    LET before == SelectSeq(sorted, LAMBDA e : e <= d)
        after == SelectSeq(sorted, LAMBDA e : e > d)
    IN before \o <<d>> \o after
SortDays(q) == IF q = <<>> THEN <<>> ELSE InsertDay(SortDays(Tail(q)), Head(q))

Includes(q, d) == \E i \in 1..Len(q) : q[i] = d

\* toggleDay: prev.includes(day) ? prev.filter(d => d !== day)
\*                                : [...prev, day].sort()
ToggleDay(prev, day) ==
    IF Includes(prev, day)
    THEN SelectSeq(prev, LAMBDA d : d # day)
    ELSE SortDays(Append(prev, day))

\* if (selectedDays.length === 0) { Alert.alert(...); return; }
NoDaysSelectedNever(days) == FALSE
NoDaysSelected(days) == Len(days) = 0

\* saveAlarm with the fields of f; ok tells whether setItem succeeds
SaveForm(f, ok) ==
    IF NoDaysSelected(f.selectedDays)
    THEN [f EXCEPT !.written = <<>>, !.lastSave = "refused"]
    ELSE LET alarm == [hour |-> f.hour, minute |-> f.minute, enabled |-> f.enabled,
                       requiredSteps |-> f.requiredSteps, days |-> f.selectedDays,
                       lastTriggeredDate |->
                           IF f.enabled THEN f.lastTriggeredDate ELSE NoDate]
         IN IF ok THEN [f EXCEPT !.written = <<alarm>>, !.lastSave = "written"]
            ELSE [f EXCEPT !.written = <<>>, !.lastSave = "failed"]

\* the buttons: hour +1 and -1, minute +5 and -5; the day buttons pressed
HourDeltas == {1, -1}
MinuteDeltas == {5, -5}
DayButtons == 0..5

(* ------------------------- AlarmManager.logWakeUp ---------------------- *)

\* stored is AsyncStorage["wakeUpLogs"] parsed (<<>> when the key is absent);
\* calls counts the logWakeUp calls and stands for the clock of
\* new Date().toISOString(); logged lists the entries whose setItem landed;
\* failures counts the calls whose getItem or setItem threw.
InitLogs(steps) ==
    [stored |-> <<>>, calls |-> 0, logged |-> <<>>, failures |-> 0, steps |-> steps]

\* q.slice(-n)
SliceFirst(q, n) == IF Len(q) <= n THEN q ELSE SubSeq(q, 1, n)
SliceLast(q, n) == IF Len(q) <= n THEN q ELSE SubSeq(q, Len(q) - n + 1, Len(q))

\* logWakeUp(stepsWalked) at the time `date`; okGet and okSet tell whether
\* getItem and setItem succeed.  An error is caught and logged to the console.
LogWakeUp(w, stepsWalked, date, okGet, okSet) ==
    LET log == [date |-> date, stepsWalked |-> stepsWalked, success |-> TRUE]
        logs == Append(w.stored, log)
        trimmedLogs == SliceLast(logs, LogsKept)
        landed == okGet /\ okSet
    IN [w EXCEPT !.calls = @ + 1,
                 !.stored = IF landed THEN trimmedLogs ELSE @,
                 !.logged = IF landed THEN Append(@, log) ELSE @,
                 !.failures = IF landed THEN @ ELSE @ + 1]

(* ------------------------------ usePedometer --------------------------- *)

\* subscription ids are 1, 2, ...; NoSub is null
NoSub == 0

\* isPedometerAvailable, subscription, isTracking are the state of the last
\* render, which the closures of startTracking and stopTracking see; live are
\* the subscriptions watchStepCount made and nobody removed; lastCall is the
\* last of the calls made so far.
NoError == "null"
InitPed == [mounted |-> TRUE, checking |-> TRUE, isPedometerAvailable |-> FALSE,
            subscription |-> NoSub, isTracking |-> FALSE, live |-> {},
            made |-> 0, lastCall |-> "none", error |-> NoError,
            currentStepCount |-> 0]

\* if (!isPedometerAvailable)
NotAvailableNever(c) == FALSE
NotAvailable(c) == ~c.isPedometerAvailable

\* startTracking in the closure of the render with state c, on the task's
\* state t (the live subscriptions and the pending setState values)
StartTracking(t, c) ==
    IF NotAvailable(c)
    THEN [t EXCEPT !.error = "Pedometer not available", !.lastCall = "start"]
    ELSE [t EXCEPT !.live = @ \cup {t.made + 1},
                   !.made = @ + 1,
                   !.subscription = t.made + 1,
                   !.isTracking = TRUE,
                   !.currentStepCount = 0,
                   !.error = NoError,
                   !.lastCall = "start"]

\* stopTracking in the same closure
StopTracking(t, c) ==
    IF c.subscription # NoSub
    THEN [t EXCEPT !.live = @ \ {c.subscription},
                   !.subscription = NoSub,
                   !.isTracking = FALSE,
                   !.lastCall = "stop"]
    ELSE [t EXCEPT !.isTracking = FALSE, !.lastCall = "stop"]

\* the calls of one task, in order, all in the closure of the same render
RECURSIVE RunCalls(_, _, _)
RunCalls(t, calls, c) ==
    IF calls = <<>> THEN t
    ELSE RunCalls(IF Head(calls) = "start" THEN StartTracking(t, c)
                  ELSE StopTracking(t, c),
                  Tail(calls), c)

\* The commit of the render that follows: when subscription changed, the
\* cleanup of the effect on [subscription] runs in the closure of the
\* previous render and removes the subscription that render saw.
CommitPed(t, c) ==
    IF t.subscription # c.subscription /\ c.subscription # NoSub
    THEN [t EXCEPT !.live = @ \ {c.subscription}]
    ELSE t

\* the step counts watchStepCount reports
StepReports == {1, 2}
PedCalls == {"start", "stop"}
CallBatches == UNION {[1..n -> PedCalls] : n \in 1..MaxCalls}
Starts(calls) == Cardinality({i \in DOMAIN calls : calls[i] = "start"})

(* ------------------------ StepDetector: detectStep --------------------- *)

\* Times are Date.now() in ms.  A session's refs after startDetection:
InitDet == [stepCount |-> 0, stepTimes |-> <<>>, lastStepTime |-> 0,
            lastPeakTime |-> 0, isInStep |-> FALSE, bufLen |-> 0]

RECURSIVE SumSeq(_)
SumSeq(q) == IF q = <<>> THEN 0 ELSE Head(q) + SumSeq(Tail(q))

Abs(i) == IF i < 0 THEN 0 - i ELSE i

\* calculateRhythmVariance: the mean absolute deviation of the intervals
\* between the recorded step times over their mean, as a fraction
\* <<numerator, denominator>>; 0.3 with fewer than 3 step times.
\* With n intervals d of sum S it is (sum |d - S/n| / n) / (S/n), which is
\* sum |n*d - S| / (n*S).
Intervals(stepTimes) ==
    [i \in 1..(Len(stepTimes) - 1) |-> stepTimes[i + 1] - stepTimes[i]]
CalculateRhythmVariance(stepTimes) ==
    IF Len(stepTimes) < 3 THEN <<3, 10>>
    ELSE LET d == Intervals(stepTimes)
             n == Len(d)
             S == SumSeq(d)
         IN <<SumSeq([i \in 1..n |-> Abs(n * d[i] - S)]), n * S>>

\* fraction v < p/q, v > p/q (denominators are positive)
Below(v, p, q) == v[1] * q < p * v[2]
Above(v, p, q) == v[1] * q > p * v[2]

\* checkIfOnlyVerticalMovement on a buffer of bufLen samples whose last 15
\* have the variances axes = <<x, y, z>>: yRatio > 0.85
CheckIfOnlyVerticalMovement(bufLen, axes) ==
    IF bufLen < 10 THEN FALSE
    ELSE IF axes[1] + axes[2] + axes[3] = 0 THEN FALSE
    ELSE 100 * axes[2] > 85 * (axes[1] + axes[2] + axes[3])

\* validateStepPattern(now).isValid
ValidateStepPattern(stepTimes, bufLen, axes) ==
    IF Len(stepTimes) < MIN_STEPS_TO_VALIDATE THEN TRUE
    ELSE LET variance == CalculateRhythmVariance(stepTimes)
         IN IF Below(variance, 5, 100) /\ Len(stepTimes) >= 4 THEN FALSE
            ELSE IF Above(variance, 60, 100) /\ Len(stepTimes) >= 4 THEN FALSE
            ELSE IF CheckIfOnlyVerticalMovement(bufLen, axes) /\ Len(stepTimes) >= 3
                 THEN FALSE
            ELSE TRUE

\* if (peakDuration < 50 || peakDuration > 400) return;
DurationAny(peakDuration) == TRUE
DurationOk(peakDuration) == ~(peakDuration < 50 \/ peakDuration > 400)

\* if (timeSinceLastStep < SETTINGS.MIN_STEP_INTERVAL) return;
TooFast(timeSinceLastStep) == timeSinceLastStep < MIN_STEP_INTERVAL

\* stepCountRef.current += 1
CountTwice(count) == count + 2
NextCount(count) == count + 1

\* stepTimesRef.current.push(now); shift() beyond 10 entries
PushTime(stepTimes, now) ==
    LET q == Append(stepTimes, now)
    IN IF Len(q) > 10 THEN Tail(q) ELSE q

\* movementBufferRef after `samples` more samples were pushed
PushSamples(bufLen, samples) ==
    IF bufLen + samples > MOVEMENT_WINDOW THEN MOVEMENT_WINDOW ELSE bufLen + samples

\* the samples the accelerometer delivers in dt ms (the last of them is the
\* one that crosses the threshold)
SamplesIn(dt) == IF dt \div UPDATE_INTERVAL < 1 THEN 1 ELSE dt \div UPDATE_INTERVAL

\* detectStep on a sample above the threshold: the peak branch
DetectPeak(d, now) ==
    IF ~d.isInStep THEN [d EXCEPT !.isInStep = TRUE, !.lastPeakTime = now] ELSE d

\* detectStep on a sample below the threshold: the valley branch
DetectValley(d, now, axes) ==
    IF ~d.isInStep THEN d
    ELSE LET down == [d EXCEPT !.isInStep = FALSE]
         IN IF ~DurationOk(now - d.lastPeakTime) THEN down
            ELSE IF TooFast(now - d.lastStepTime) THEN down
            ELSE IF ValidateStepPattern(d.stepTimes, d.bufLen, axes)
                 THEN [down EXCEPT !.stepCount = NextCount(@),
                                   !.stepTimes = PushTime(@, now),
                                   !.lastStepTime = now]
                 ELSE down

(* ---------------- StepDetector: subscription and parents --------------- *)

\* subscriptionRef and the accelerometer listeners nobody removed yet
NoSensor == [mounted |-> FALSE, isActive |-> FALSE, subscriptionRef |-> NoSub,
             live |-> {}, made |-> 0]

\* startDetection: subscriptionRef.current = Accelerometer.addListener(...)
StartDetection(s) ==
    [s EXCEPT !.live = @ \cup {s.made + 1},
              !.made = @ + 1,
              !.subscriptionRef = s.made + 1]

\* stopDetection
StopDetection(s) ==
    IF s.subscriptionRef # NoSub
    THEN [s EXCEPT !.live = @ \ {s.subscriptionRef}, !.subscriptionRef = NoSub]
    ELSE s

\* return () => stopDetection()  of the effect on [isActive]
EffectCleanupNone(s) == s
EffectCleanup(s) == StopDetection(s)

\* the body of the effect on [isActive]
ActiveEffect(s) == IF s.isActive THEN StartDetection(s) ELSE StopDetection(s)

\* The walker: Date.now(), whether the magnitude is above the threshold, how
\* he walks, the variances <<x, y, z>> of the samples he produces, and the
\* excursions he has completed.
Epoch == 100000
Profiles == {"steady", "varied", "erratic"}
\* ms from a valley to the next peak
Gaps(profile) ==
    CASE profile = "steady" -> {415, 440, 465}
      [] profile = "varied" -> {440, 640}
      [] profile = "erratic" -> {200, 440}
\* ms from a peak to its valley
Durations(profile) ==
    CASE profile = "steady" -> {60}
      [] profile = "varied" -> {60}
      [] profile = "erratic" -> {40, 60, 440}
Lateral == <<3, 5, 2>>
Vertical == <<0, 9, 1>>
Sideways == <<9, 0, 1>>
AxisChoices == {Lateral, Vertical, Sideways}
ExcursionsOf(profile) == IF profile = "erratic" THEN MaxErratic ELSE MaxExcursions

InitWalk(profile, axes) ==
    [now |-> Epoch, high |-> FALSE, profile |-> profile, axes |-> axes,
     excursions |-> 0]

\* The parent of the StepDetector: a plain component that switches isActive
\* and unmounts it, or the AlarmScreen that keeps the StepDetector mounted
\* until onDismiss.  reached counts the onTargetReached calls, timers holds
\* the due times of the pending setTimeout(onDismiss), dismissed counts the
\* onDismiss calls.
Parents == {"plain", "alarm"}
InitScreen(parent) ==
    [parent |-> parent, target |-> STEP_OPTIONS[1], reached |-> 0, timers |-> {},
     dismissed |-> 0]

\* the effect on [stepCount, targetSteps] after a render with a new count,
\* and what onTargetReached does in the parent
TargetEffect(sc, count, now) ==
    IF ~TargetReached(count, sc.target) THEN sc
    ELSE IF sc.parent = "alarm"
         THEN [sc EXCEPT !.reached = @ + 1, !.timers = @ \cup {now + DismissDelay}]
         ELSE [sc EXCEPT !.reached = @ + 1]

MinOf(S) == CHOOSE x \in S : \A y \in S : x <= y

\* no timer is due before the time t
NotOverdue(t) == IF screen.timers = {} THEN TRUE ELSE t <= MinOf(screen.timers)

(* ---------------- StepDetector: processMovement, per sample ------------ *)

\* arr.push(v); if (arr.length > bound) arr.shift();
PushNoShift(arr, v, bound) == Append(arr, v)
PushShift(arr, v, bound) ==
    LET q == Append(arr, v)
    IN IF Len(q) > bound THEN Tail(q) ELSE q

\* the last min(Len(q), n) elements of q
LastOf(q, n) == IF Len(q) <= n THEN q ELSE SubSeq(q, Len(q) - n + 1, Len(q))

\* Magnitudes are in hundredths of g; a mean is kept as <<sum, count>>.
\* baselineRef.current = 1 of startDetection:
NeutralBaseline == <<100, 1>>
FracEq(a, b) == a[1] * b[2] = b[1] * a[2]

\* if (magnitudeHistoryRef.current.length >= 10) baselineRef.current = mean
BaselineReadyAlways(history) == TRUE
BaselineReady(history) == Len(history) >= 10
Baseline(history, previous) ==
    IF BaselineReady(history) THEN <<SumSeq(history), Len(history)>> ELSE previous

\* threshold = baseline * STEP_THRESHOLD_MULTIPLIER (1.08), as a fraction
Threshold(baseline) == <<108 * baseline[1], 100 * baseline[2]>>

\* magnitude > threshold, magnitude < threshold
AboveThreshold(magnitude, threshold) == magnitude * threshold[2] > threshold[1]
BelowThreshold(magnitude, threshold) == magnitude * threshold[2] < threshold[1]

\* deviation > MIN_PEAK_MAGNITUDE (0.12) with deviation = magnitude - baseline
DeviationAny(magnitude, baseline) == TRUE
DeviationOk(magnitude, baseline) ==
    magnitude * baseline[2] - baseline[1] > 12 * baseline[2]

\* The walker of the per-sample study moves in cycles; a gait fixes the
\* cycle's length in samples and the magnitude of each of its samples.
GaitLength(gait) ==
    CASE gait = "stride12" -> 12
      [] gait = "stride17" -> 17
      [] gait = "blip" -> 5
      [] gait = "spike" -> 8
MagnitudeAt(gait, pos) ==
    CASE gait = "stride12" -> IF pos \in {10, 11} THEN 130 ELSE 100
      [] gait = "stride17" -> IF pos \in {15, 16} THEN 130 ELSE 100
      [] gait = "blip" -> IF pos \in {3, 4} THEN 111 ELSE 100
      [] gait = "spike" -> IF pos = 7 THEN 130 ELSE 100
SampleProfiles == {"walk", "fidget"}
GaitsOf(profile) ==
    IF profile = "walk" THEN {"stride12", "stride17"}
    ELSE {"stride12", "blip", "spike"}
CyclesOf(profile) == IF profile = "walk" THEN MaxExcursions ELSE MaxErratic

\* The refs after startDetection at the time now, and the walker.  arrived,
\* counted and peaks are the history of the session: the magnitudes
\* processed, the times of the counted steps, the samples that entered the
\* above-threshold state.
StartedImp(w, now) ==
    [w EXCEPT !.now = now, !.samples = 0,
              !.magnitudeHistory = <<>>, !.movementBuffer = <<>>,
              !.baseline = NeutralBaseline,
              !.threshold = Threshold(NeutralBaseline),
              !.d = InitDet,
              !.arrived = <<>>, !.counted = <<>>, !.peaks = 0]
InitImp(profile) ==
    StartedImp([profile |-> profile, gait |-> "stride12", pos |-> 0, cycles |-> 0,
                sessions |-> 1, now |-> Epoch, samples |-> 0,
                magnitudeHistory |-> <<>>, movementBuffer |-> <<>>,
                baseline |-> NeutralBaseline, threshold |-> Threshold(NeutralBaseline),
                d |-> InitDet, arrived |-> <<>>, counted |-> <<>>, peaks |-> 0],
               Epoch)

\* processMovement on the sample of the given magnitude taken at `now`
ProcessMovement(w, magnitude, now) ==
    LET movementBuffer == PushShift(w.movementBuffer, now, MOVEMENT_WINDOW)
        magnitudeHistory == PushShift(w.magnitudeHistory, magnitude, MOVEMENT_WINDOW)
        baseline == Baseline(magnitudeHistory, w.baseline)
        threshold == Threshold(baseline)
        d0 == [w.d EXCEPT !.bufLen = Len(movementBuffer)]
        enters == /\ AboveThreshold(magnitude, threshold)
                  /\ ~d0.isInStep
                  /\ DeviationOk(magnitude, baseline)
        d1 == IF enters THEN DetectPeak(d0, now) ELSE d0
        d2 == IF BelowThreshold(magnitude, threshold) /\ d1.isInStep
              THEN DetectValley(d1, now, Lateral) ELSE d1
    IN [w EXCEPT !.now = now, !.samples = @ + 1,
                 !.movementBuffer = movementBuffer,
                 !.magnitudeHistory = magnitudeHistory,
                 !.baseline = baseline,
                 !.threshold = threshold,
                 !.d = d2,
                 !.arrived = Append(@, magnitude),
                 !.counted = IF d2.stepCount # w.d.stepCount THEN Append(@, now) ELSE @,
                 !.peaks = IF enters THEN @ + 1 ELSE @]

(* ------------- the anti-cheat StepDetector, per sample ----------------- *)

\* the walker: cycles of samples 50 ms apart
AntiInterval == 50
AntiGaitLength(gait) ==
    CASE gait = "stride7" -> 7
      [] gait = "stride9" -> 9
      [] gait = "pause31" -> 31
      [] gait = "quick5" -> 5
AntiMagnitudeAt(gait, pos) ==
    LET n == AntiGaitLength(gait)
    IN IF pos \in {n - 2, n - 1} THEN 130 ELSE 100
AntiProfiles == {"walk", "stroll", "bounce"}
AntiGaitsOf(profile) ==
    CASE profile = "walk" -> {"stride7", "stride9"}
      [] profile = "stroll" -> {"stride9", "pause31"}
      [] profile = "bounce" -> {"stride9", "quick5"}
AntiCyclesOf(profile) == IF profile = "walk" THEN MaxExcursions ELSE MaxErratic
\* Math.abs(x) of a sample, in hundredths of g: the sway of the walker
AbsXAt(profile, pos) == (IF profile = "bounce" THEN 5 ELSE 20) + (pos % 3)
AntiGaits == {"stride7", "stride9", "pause31", "quick5"}

\* The refs after startDetection at the time now.  xArrived and
\* intervalsArrived are the history of the session: every |x| and every
\* step interval pushed.
InitAnti(profile) ==
    [profile |-> profile, gait |-> "stride9", pos |-> 0, cycles |-> 0,
     now |-> Epoch, samples |-> 0,
     xMovementHistory |-> <<>>, stepData |-> <<>>, stepIntervals |-> <<>>,
     lastStepTime |-> Epoch, isAboveThreshold |-> FALSE,
     stepCount |-> 0, validStepCount |-> 0, consecutiveGoodSteps |-> 0,
     xArrived |-> <<>>, intervalsArrived |-> <<>>]

\* rhythmScore > RHYTHM_TOLERANCE (0.5) on stepIntervals.slice(-5): the mean
\* absolute deviation over the mean
RhythmScore(stepIntervals) ==
    LET intervals == LastOf(stepIntervals, 5)
        n == Len(intervals)
        S == SumSeq(intervals)
    IN <<SumSeq([i \in 1..n |-> Abs(n * intervals[i] - S)]), n * S>>
RhythmTooLoose(stepIntervals) == Above(RhythmScore(stepIntervals), 50, 100)

\* lastStepTimeRef.current = now, after every raw step
KeepLastStepTime(lastStepTime, now) == lastStepTime
UpdateLastStepTime(lastStepTime, now) == now

\* avgXMovement < MIN_X_MOVEMENT, the average of no value being 0
LowSwayNever(xMovementHistory) == FALSE
LowSway(xMovementHistory) ==
    \/ xMovementHistory = <<>>
    \/ SumSeq(xMovementHistory) < MIN_X_MOVEMENT * Len(xMovementHistory)

\* the end of validateStep: with REQUIRED_CONSISTENT_STEPS (3) consecutive
\* good steps or with fewer, return true
PassedWhenConfident(consecutiveGoodSteps) == consecutiveGoodSteps >= 3
PassedAllChecks(consecutiveGoodSteps) ==
    IF consecutiveGoodSteps >= 3 THEN TRUE ELSE TRUE

\* validateStep(interval) on the refs r: <<isValid, stepIntervals,
\* consecutiveGoodSteps>> as it leaves them
ValidateStep(r, interval) ==
    \* interval < MIN_STEP_INTERVAL, 300 ms in this detector
    IF interval < 300 THEN <<FALSE, r.stepIntervals, 0>>
    ELSE IF interval > MAX_STEP_INTERVAL THEN <<TRUE, <<>>, 0>>
    ELSE IF LowSway(r.xMovementHistory) THEN <<FALSE, r.stepIntervals, 0>>
    ELSE IF Len(r.stepIntervals) >= 3 /\ RhythmTooLoose(r.stepIntervals)
         THEN <<FALSE, r.stepIntervals, 0>>
    ELSE <<PassedAllChecks(r.consecutiveGoodSteps + 1), r.stepIntervals,
           r.consecutiveGoodSteps + 1>>

\* processAccelerometerData on a sample with |x| = absX and the magnitude
\* mag, taken at `now`
ProcessAccelerometerData(r, absX, mag, now) ==
    LET xMovementHistory == PushShift(r.xMovementHistory, absX, 20)
        stepData == PushShift(r.stepData, [timestamp |-> now, magnitude |-> mag], 50)
        recentMagnitudes == [i \in 1..Len(LastOf(stepData, 20)) |->
                                LastOf(stepData, 20)[i].magnitude]
        \* mag > avgMag * 1.12 and mag < avgMag * 1.12
        above == mag * Len(recentMagnitudes) * 100 > 112 * SumSeq(recentMagnitudes)
        below == mag * Len(recentMagnitudes) * 100 < 112 * SumSeq(recentMagnitudes)
        r0 == [r EXCEPT !.now = now, !.samples = @ + 1,
                        !.xMovementHistory = xMovementHistory,
                        !.stepData = stepData,
                        !.xArrived = Append(@, absX)]
        r1 == IF above /\ ~r0.isAboveThreshold
              THEN [r0 EXCEPT !.isAboveThreshold = TRUE] ELSE r0
        timeSinceLastStep == now - r1.lastStepTime
        v == ValidateStep(r1, timeSinceLastStep)
    IN IF ~(below /\ r1.isAboveThreshold) THEN r1
       ELSE IF ~(timeSinceLastStep >= 300)
            THEN [r1 EXCEPT !.isAboveThreshold = FALSE]
       ELSE [r1 EXCEPT !.isAboveThreshold = FALSE,
                       !.stepCount = @ + 1,
                       !.validStepCount = IF v[1] THEN @ + 1 ELSE @,
                       !.consecutiveGoodSteps = v[3],
                       !.stepIntervals = PushShift(v[2], timeSinceLastStep, 10),
                       !.intervalsArrived = Append(@, timeSinceLastStep),
                       !.lastStepTime = UpdateLastStepTime(@, now)]

(* ------------------- AlarmScreen: the alarm sound ---------------------- *)

\* soundRef.current, null or the one Audio.Sound this screen creates
NoSound == "null"
TheSound == "sound"

\* The AlarmScreen after its mount effect: playAlarmSound awaits
\* Audio.setAudioModeAsync.  audio is the state of the sound in expo-av
\* ("none" until createAsync made it), stops holds the stopAlarmSound calls
\* in flight: who awaits it and which await it is at; stepCount is the
\* count of its StepDetector, reached counts the handleTargetReached calls,
\* timers the pending setTimeout(onDismiss).
RingingSound(requiredSteps) ==
    [mounted |-> TRUE, play |-> "setAudioModeAsync", soundRef |-> NoSound,
     audio |-> "none", stops |-> <<>>, requiredSteps |-> requiredSteps,
     stepCount |-> 0, reached |-> 0, timers |-> 0]
InitSound == RingingSound(DefaultRequiredSteps)

\* stopAlarmSound() up to its first await; with soundRef.current null it
\* returns at once
StopAlarmSound(w, caller) ==
    IF w.soundRef # NoSound
    THEN [w EXCEPT !.stops = Append(@, [caller |-> caller, pc |-> "stopAsync"])]
    ELSE w

\* what follows `await stopAlarmSound()` for its caller: handleTargetReached
\* sets the timer, the unmount cleanup does nothing more
Returned(w, caller) ==
    IF caller = "target" THEN [w EXCEPT !.timers = @ + 1] ELSE w

\* handleTargetReached up to its await
HandleTargetReached(w) ==
    LET called == StopAlarmSound([w EXCEPT !.reached = @ + 1], "target")
    IN IF w.soundRef # NoSound THEN called ELSE Returned(called, "target")

\* the cleanup of the mount effect
Unmounted(w) == StopAlarmSound([w EXCEPT !.mounted = FALSE], "cleanup")

(* ------------------- PedometerTest: detectStep ------------------------- *)

TestGaitLength(gait) ==
    CASE gait = "stride9" -> 9
      [] gait = "pause41" -> 41
      [] gait = "quick4" -> 4
TestGaits == {"stride9", "pause41", "quick4"}
TestMagnitudeAt(gait, pos) ==
    LET n == TestGaitLength(gait)
    IN IF pos \in {n - 2, n - 1} THEN 130 ELSE 100

\* The refs after startTracking at the time now, and the walker.  counted
\* holds timeSinceLastStep of the steps counted.
InitTest ==
    [gait |-> "stride9", pos |-> 0, cycles |-> 0, now |-> Epoch,
     magnitudeHistory |-> <<>>, lastStepTime |-> Epoch,
     isAboveThreshold |-> FALSE, stepCount |-> 0, counted |-> <<>>,
     crossings |-> 0]

\* if (timeSinceLastStep >= minTimeBetweenSteps)
TimingValid(timeSinceLastStep) == timeSinceLastStep >= 250

\* detectStep(currentMagnitude) at the time now, with sensitivity 1.15
TestDetectStep(r, currentMagnitude, now) ==
    LET timeSinceLastStep == now - r.lastStepTime
        history == PushShift(r.magnitudeHistory, currentMagnitude, 20)
        \* currentMagnitude > avgMagnitude * 1.15, and < of the same
        above == currentMagnitude * Len(history) * 100 > 115 * SumSeq(history)
        below == currentMagnitude * Len(history) * 100 < 115 * SumSeq(history)
        r0 == [r EXCEPT !.now = now, !.magnitudeHistory = history]
        r1 == IF above /\ ~r0.isAboveThreshold
              THEN [r0 EXCEPT !.isAboveThreshold = TRUE] ELSE r0
    IN IF ~(below /\ r1.isAboveThreshold) THEN r1
       ELSE IF TimingValid(timeSinceLastStep)
            THEN [r1 EXCEPT !.isAboveThreshold = FALSE,
                            !.crossings = @ + 1,
                            !.stepCount = @ + 1,
                            !.lastStepTime = now,
                            !.counted = Append(@, timeSinceLastStep)]
            ELSE [r1 EXCEPT !.isAboveThreshold = FALSE, !.crossings = @ + 1]

(* ---------------------- state of the side components ------------------- *)

InitSide ==
    /\ timeUntil = NoTimeUntil
    /\ ped = InitPed
    /\ det = InitDet
    /\ walk = InitWalk("steady", Lateral)
    /\ sensor = NoSensor
    /\ screen = InitScreen("plain")

InitLab ==
    /\ trig = NoTrig
    /\ wakeUpLogs = InitLogs(STEP_OPTIONS[1])
    /\ form = InitForm
    /\ anti = InitAnti("walk")
    /\ imp = InitImp("walk")
    /\ sound = InitSound
    /\ test = InitTest

(* ------------------------------- Init ---------------------------------- *)

\* what a previous run of the app may have left in the store: nothing, or an
\* alarm the settings screen saved
SavedHours == {6, 7}
SavedDays == {DefaultDays, {6}}
InitStores ==
    {NoAlarm} \cup
    {MakeAlarm(h, DefaultMinute, en, STEP_OPTIONS[1], days, NoDate) :
        h \in SavedHours, en \in BOOLEAN, days \in SavedDays}
InitStoresUser ==
    {NoAlarm} \cup
    {MakeAlarm(DefaultHour, DefaultMinute, TRUE, steps, DefaultDays, NoDate) :
        steps \in StepChoices}

\* HomeScreen's first render and its mount effect: initializeApp runs to its
\* await of loadAlarm, the AppState listener is installed.
InitApp ==
    /\ mounted = TRUE
    /\ isLoading = TRUE
    /\ showAlarm = FALSE
    /\ activeAlarm = NoAlarm
    /\ capturedShowAlarm = FALSE
    /\ appState = "active"
    /\ checkIntervalRef = FALSE
    /\ isCheckingRef = FALSE
    /\ initPc = "loading"
    /\ poll = [p \in Slots |-> IdlePoll]
    /\ ring = NoRing
    /\ soundStops = 0
    /\ dismissTimers = 0
    /\ ui = UiDefaults
    /\ uiLoading = FALSE
    /\ staleLoad = FALSE
    /\ saves = <<>>
    /\ reset = NoReset
    /\ rangToday = FALSE

Init ==
    /\ clock = [day |-> 0, hour |-> 6, minute |-> 0]
    /\ store \in InitStores
    /\ InitApp
    /\ InitSide
    /\ InitLab

(* ------------------------ HomeScreen actions --------------------------- *)

\* The clock moves on.
Tick ==
    /\ JsIdle
    /\ Later(clock) # {}
    /\ clock' = NextInstant(clock)
    /\ rangToday' = (clock'.day = clock.day /\ rangToday)
    /\ UNCHANGED <<sideVars, labVars, store, mounted, isLoading, showAlarm, activeAlarm,
                   capturedShowAlarm, appState, checkIntervalRef, isCheckingRef,
                   initPc, poll, dismissTimers, saves, renderVars>>

\* initializeApp after its await of loadAlarm; startAlarmChecker is
\* stopAlarmChecker, checkAlarmTime, setInterval.
InitLoadDone(ok) ==
    /\ JsIdle
    /\ initPc = "loading"
    /\ LET alarm == LoadAlarm(ok)
       IN activeAlarm' = IF alarm.present /\ alarm.enabled
                         THEN SetIfMounted(alarm, activeAlarm) ELSE activeAlarm
    /\ isLoading' = SetIfMounted(FALSE, isLoading)
    /\ initPc' = "done"
    /\ CheckAlarmTime
    /\ checkIntervalRef' = TRUE
    /\ Render(mounted, isLoading', showAlarm, activeAlarm')
    /\ UNCHANGED <<sideVars, labVars, clock, store, mounted, showAlarm, capturedShowAlarm, appState,
                   dismissTimers, saves, rangToday>>

AppStates == {"active", "background"}

\* handleAppStateChange, while the listener is subscribed
AppStateChange(next) ==
    /\ JsIdle
    /\ mounted
    /\ next # appState
    /\ IF appState # "active" /\ next = "active"
       THEN CheckAlarmTime
       ELSE UNCHANGED <<poll, isCheckingRef>>
    /\ appState' = next
    /\ UNCHANGED <<sideVars, labVars, clock, store, mounted, isLoading, showAlarm, activeAlarm,
                   capturedShowAlarm, checkIntervalRef, initPc, dismissTimers,
                   saves, rangToday, renderVars>>

\* the setInterval callback of startAlarmChecker
IntervalTick ==
    /\ JsIdle
    /\ checkIntervalRef
    /\ CheckAlarmTime
    /\ UNCHANGED <<sideVars, labVars, clock, store, mounted, isLoading, showAlarm, activeAlarm,
                   capturedShowAlarm, appState, checkIntervalRef, initPc,
                   dismissTimers, saves, rangToday, renderVars>>

\* The clock reaches the next minute while the checker runs.  The interval
\* is 10 s and a minute 60 s: the timer callback runs in every minute (here
\* at its start), and the store answers the polls in flight before the
\* minute is over.
MinuteWithPoll ==
    /\ JsIdle
    /\ checkIntervalRef
    /\ Running = {}
    /\ Later(clock) # {}
    /\ clock' = NextInstant(clock)
    /\ rangToday' = (clock'.day = clock.day /\ rangToday)
    /\ CheckAlarmTime
    /\ UNCHANGED <<sideVars, labVars, store, mounted, isLoading, showAlarm, activeAlarm,
                   capturedShowAlarm, appState, checkIntervalRef, initPc,
                   dismissTimers, saves, renderVars>>

\* The cleanup of the mount effect: subscription.remove(), stopAlarmChecker().
Teardown ==
    /\ JsIdle
    /\ mounted
    /\ mounted' = FALSE
    /\ checkIntervalRef' = FALSE
    /\ Render(FALSE, isLoading, showAlarm, activeAlarm)
    /\ UNCHANGED <<sideVars, labVars, clock, store, isLoading, showAlarm, activeAlarm, capturedShowAlarm,
                   appState, isCheckingRef, initPc, poll, dismissTimers, saves,
                   rangToday>>

(* ----------------- checkAlarmTime after its first await ---------------- *)

\* everything a step of a poll that only moves the poll leaves alone
pollFrame == <<sideVars, labVars, clock, store, mounted, isLoading, showAlarm, activeAlarm,
               capturedShowAlarm, appState, checkIntervalRef, initPc,
               dismissTimers, saves, rangToday, renderVars>>

\* shouldTrigger after its await of loadAlarm: reads the clock and decides
ShouldTriggerDone(p, ok) ==
    /\ JsIdle
    /\ poll[p].pc = "shouldLoad"
    /\ LET alarm == LoadAlarm(ok)
       IN poll' = [poll EXCEPT ![p] = [pc |-> "decided",
                                       alarm |-> alarm,
                                       now |-> clock,
                                       result |-> ShouldTriggerFlag(alarm, clock),
                                       toWrite |-> NoAlarm]]
    /\ UNCHANGED <<isCheckingRef, pollFrame>>

\* setActiveAlarm(alarm); setShowAlarm(true)
Present(p) ==
    /\ activeAlarm' = SetIfMounted(poll[p].alarm, activeAlarm)
    /\ showAlarm' = SetIfMounted(TRUE, showAlarm)
    /\ rangToday' = (rangToday \/ (mounted /\ ~showAlarm))
    /\ Render(mounted, isLoading, showAlarm', activeAlarm')

\* if (shouldTrigger && alarm) { await AlarmManager.markTriggered(); ...
\* markTriggered runs to its await of loadAlarm
TriggerBranchNoAwait(p) ==
    /\ poll' = [poll EXCEPT ![p] = [IdlePoll EXCEPT !.pc = "markLoad", !.alarm = poll[p].alarm]]
    /\ Present(p)
    /\ UNCHANGED isCheckingRef
TriggerBranch(p) ==
    /\ poll' = [poll EXCEPT ![p] = [IdlePoll EXCEPT !.pc = "markLoad", !.alarm = poll[p].alarm]]
    /\ UNCHANGED <<isCheckingRef, showAlarm, activeAlarm, rangToday, renderVars>>

\* finally { isCheckingRef.current = false }
FinallyKeepsFlag(p) ==
    /\ poll' = [poll EXCEPT ![p] = IdlePoll]
    /\ isCheckingRef' = isCheckingRef
Finally(p) ==
    /\ poll' = [poll EXCEPT ![p] = IdlePoll]
    /\ isCheckingRef' = FALSE

\* checkAlarmTime resumed with the result of shouldTrigger
CheckContinue(p) ==
    /\ poll[p].pc = "decided"
    /\ IF poll[p].result /\ ShouldTriggerAlarm(poll[p].alarm).present
       THEN TriggerBranch(p)
       ELSE /\ Finally(p)
            /\ UNCHANGED <<showAlarm, activeAlarm, rangToday, renderVars>>
    /\ UNCHANGED <<sideVars, labVars, clock, store, mounted, isLoading, capturedShowAlarm, appState,
                   checkIntervalRef, initPc, dismissTimers, saves>>

\* alarm.lastTriggeredDate = new Date().toDateString()
Marked(alarm, day) == [alarm EXCEPT !.lastTriggeredDate = DateString(day)]

\* markTriggered after its await of loadAlarm: stamps today and calls setItem,
\* or returns when nothing is stored (or the read failed)
MarkLoadDone(p, ok) ==
    /\ JsIdle
    /\ poll[p].pc = "markLoad"
    /\ LET alarm == LoadAlarm(ok)
       IN poll' = IF alarm.present
                  THEN [poll EXCEPT ![p].pc = "markSet",
                                    ![p].toWrite = Marked(alarm, clock.day)]
                  ELSE [poll EXCEPT ![p].pc = "markDone"]
    /\ UNCHANGED <<isCheckingRef, pollFrame>>

\* markTriggered after its await of setItem; a failed write is only logged
MarkSetDone(p, ok) ==
    /\ JsIdle
    /\ poll[p].pc = "markSet"
    /\ store' = IF ok THEN poll[p].toWrite ELSE store
    /\ poll' = [poll EXCEPT ![p].pc = "markDone", ![p].toWrite = NoAlarm]
    /\ UNCHANGED <<sideVars, labVars, clock, mounted, isLoading, showAlarm, activeAlarm,
                   capturedShowAlarm, appState, checkIntervalRef, isCheckingRef,
                   initPc, dismissTimers, saves, rangToday, renderVars>>

\* checkAlarmTime resumed after markTriggered: presents the ring
PresentRing(p) ==
    /\ poll[p].pc = "markDone"
    /\ Present(p)
    /\ Finally(p)
    /\ UNCHANGED <<sideVars, labVars, clock, store, mounted, isLoading, capturedShowAlarm, appState,
                   checkIntervalRef, initPc, dismissTimers, saves>>

(* ------------------- AlarmScreen and StepDetector ---------------------- *)

\* detectStep counts a valid step; the effect on [stepCount, targetSteps]
\* calls onTargetReached once the count has reached the target.
ValidStep ==
    /\ JsIdle
    /\ AlarmShown
    /\ ~ring.isComplete
    /\ LET count == ring.stepCount + 1
           hit == TargetReached(count, TargetSteps(activeAlarm))
       IN /\ ring' = [isComplete |-> hit, stepCount |-> count]
          /\ soundStops' = IF hit THEN soundStops + 1 ELSE soundStops
    /\ UNCHANGED <<sideVars, labVars, clock, store, mounted, isLoading, showAlarm, activeAlarm,
                   capturedShowAlarm, appState, checkIntervalRef, isCheckingRef,
                   initPc, poll, dismissTimers, ui, uiLoading, staleLoad, saves,
                   reset, rangToday>>

\* handleTargetReached after its await of stopAlarmSound: setTimeout(onDismiss)
StopSoundDone ==
    /\ JsIdle
    /\ soundStops > 0
    /\ soundStops' = soundStops - 1
    /\ dismissTimers' = dismissTimers + 1
    /\ UNCHANGED <<sideVars, labVars, clock, store, mounted, isLoading, showAlarm, activeAlarm,
                   capturedShowAlarm, appState, checkIntervalRef, isCheckingRef,
                   initPc, poll, ring, ui, uiLoading, staleLoad, saves, reset,
                   rangToday>>

\* The timeout fires: onDismiss is HomeScreen.handleDismissAlarm,
\* setShowAlarm(false).  (Its wake-up log write touches another store key.)
DismissTimerFires ==
    /\ JsIdle
    /\ dismissTimers > 0
    /\ dismissTimers' = dismissTimers - 1
    /\ showAlarm' = SetIfMounted(FALSE, showAlarm)
    /\ Render(mounted, isLoading, showAlarm', activeAlarm)
    /\ UNCHANGED <<sideVars, labVars, clock, store, mounted, isLoading, activeAlarm, capturedShowAlarm,
                   appState, checkIntervalRef, isCheckingRef, initPc, poll, saves,
                   rangToday>>

\* hardwareBackPress while the AlarmScreen is mounted: the handler returns
\* true, the press is consumed.
BackPress ==
    /\ JsIdle
    /\ AlarmShown
    /\ UNCHANGED vars

(* --------------------------- SetAlarmScreen ---------------------------- *)

homeFrame == <<sideVars, labVars, clock, mounted, isLoading, showAlarm, capturedShowAlarm, appState,
               checkIntervalRef, isCheckingRef, initPc, poll, dismissTimers,
               rangToday>>

\* the state the screen takes from a loaded alarm
FromAlarm(alarm) ==
    [hour |-> alarm.hour, minute |-> alarm.minute, enabled |-> alarm.enabled,
     requiredSteps |-> alarm.requiredSteps, days |-> alarm.days,
     lastTriggeredDate |-> alarm.lastTriggeredDate]

\* loadAlarm of the mounted screen after its await
UiLoadDone(ok) ==
    /\ JsIdle
    /\ uiLoading
    /\ LET alarm == LoadAlarm(ok)
       IN /\ ui' = IF alarm.present THEN FromAlarm(alarm) ELSE ui
          /\ activeAlarm' = IF alarm.present /\ alarm.enabled THEN alarm ELSE activeAlarm
    /\ uiLoading' = FALSE
    /\ UNCHANGED <<store, ring, soundStops, staleLoad, saves, reset, homeFrame>>

\* loadAlarm of a screen that was unmounted meanwhile: its setState calls do
\* nothing, its onAlarmChange still reaches HomeScreen
StaleLoadDone(ok) ==
    /\ JsIdle
    /\ staleLoad
    /\ staleLoad' = FALSE
    /\ LET alarm == LoadAlarm(ok)
       IN activeAlarm' = IF alarm.present /\ alarm.enabled
                         THEN SetIfMounted(alarm, activeAlarm) ELSE activeAlarm
    /\ RingRender(mounted, isLoading, showAlarm, activeAlarm')
    /\ UNCHANGED <<store, ui, uiLoading, saves, reset, homeFrame>>

\* the Switch: onValueChange={setEnabled}
SetEnabled(v) ==
    /\ JsIdle
    /\ SettingsShown
    /\ v # ui.enabled
    /\ ui' = [ui EXCEPT !.enabled = v]
    /\ UNCHANGED <<store, activeAlarm, ring, soundStops, uiLoading, staleLoad,
                   saves, reset, homeFrame>>

\* a step option button: setRequiredSteps(steps)
SelectSteps(steps) ==
    /\ JsIdle
    /\ SettingsShown
    /\ ui' = [ui EXCEPT !.requiredSteps = steps]
    /\ UNCHANGED <<store, activeAlarm, ring, soundStops, uiLoading, staleLoad,
                   saves, reset, homeFrame>>

\* the alarm saveAlarm builds from the screen's state
AlarmToSave ==
    MakeAlarm(ui.hour, ui.minute, ui.enabled, ui.requiredSteps, ui.days,
              IF ui.enabled THEN ui.lastTriggeredDate ELSE NoDate)

\* saveAlarm up to its await of AlarmManager.saveAlarm (setItem); one save is
\* in flight at a time
SavePress ==
    /\ JsIdle
    /\ SettingsShown
    /\ saves = <<>>
    /\ ui.days # {}
    /\ saves' = Append(saves, AlarmToSave)
    /\ UNCHANGED <<store, activeAlarm, ring, soundStops, ui, uiLoading, staleLoad,
                   reset, homeFrame>>

\* saveAlarm after the await: the write has been carried out (a failure is
\* only logged), onAlarmChange(enabled ? alarm : null)
SaveDone(ok) ==
    /\ JsIdle
    /\ saves # <<>>
    /\ store' = IF ok THEN Head(saves) ELSE store
    /\ saves' = Tail(saves)
    /\ activeAlarm' = SetIfMounted(IF Head(saves).enabled THEN Head(saves) ELSE NoAlarm,
                                   activeAlarm)
    /\ RingRender(mounted, isLoading, showAlarm, activeAlarm')
    /\ UNCHANGED <<ui, uiLoading, staleLoad, reset, homeFrame>>

\* resetAlarmForTesting up to the await of loadAlarm in resetTriggeredStatus
ResetPress ==
    /\ JsIdle
    /\ SettingsShown
    /\ reset.pc = "idle"
    /\ reset' = [pc |-> "load", alarm |-> NoAlarm, live |-> TRUE]
    /\ UNCHANGED <<store, activeAlarm, ring, soundStops, ui, uiLoading, staleLoad,
                   saves, homeFrame>>

\* setLastTriggeredDate(null) of resetAlarmForTesting, on a screen still mounted
AfterReset == IF reset.live THEN [ui EXCEPT !.lastTriggeredDate = NoDate] ELSE ui

\* resetTriggeredStatus after its await of loadAlarm
ResetLoadDone(ok) ==
    /\ JsIdle
    /\ reset.pc = "load"
    /\ LET alarm == LoadAlarm(ok)
       IN IF alarm.present
          THEN /\ reset' = [reset EXCEPT !.pc = "set",
                                         !.alarm = [alarm EXCEPT !.lastTriggeredDate = NoDate]]
               /\ ui' = ui
          ELSE /\ reset' = NoReset
               /\ ui' = AfterReset
    /\ UNCHANGED <<store, activeAlarm, ring, soundStops, uiLoading, staleLoad, saves,
                   homeFrame>>

\* resetTriggeredStatus after its await of setItem
ResetSetDone(ok) ==
    /\ JsIdle
    /\ reset.pc = "set"
    /\ store' = IF ok THEN reset.alarm ELSE store
    /\ reset' = NoReset
    /\ ui' = AfterReset
    /\ UNCHANGED <<activeAlarm, ring, soundStops, uiLoading, staleLoad, saves,
                   homeFrame>>

\* the test button: onTestAlarm is HomeScreen.handleTestAlarm
TestAlarmPress ==
    /\ JsIdle
    /\ SettingsShown
    /\ showAlarm' = TRUE
    /\ Render(mounted, isLoading, TRUE, activeAlarm)
    /\ UNCHANGED <<sideVars, labVars, clock, store, mounted, isLoading, activeAlarm, capturedShowAlarm,
                   appState, checkIntervalRef, isCheckingRef, initPc, poll,
                   dismissTimers, saves, rangToday>>

(* ------------------- the side components' actions ---------------------- *)

\* A call of AlarmManager.getTimeUntilAlarm, as SetAlarmScreen.updateTimeUntil
\* and saveAlarm make it; the result goes to setTimeUntil or the alert.
GetTimeUntilAlarmCall(alarm, now) ==
    /\ timeUntil' = [called |-> TRUE, alarm |-> alarm, now |-> now,
                     result |-> GetTimeUntilAlarm(alarm, now)]
    /\ UNCHANGED <<appVars, labVars, ped, det, walk, sensor, screen>>

\* A call of AlarmManager.shouldTrigger at the instant now, with the alarm
\* loadAlarm returned: the flag it hands to checkAlarmTime.
ShouldTriggerCall(alarm, now) ==
    /\ trig' = [called |-> TRUE, alarm |-> alarm, now |-> now,
                result |-> ShouldTriggerFlag(alarm, now)]
    /\ UNCHANGED <<appVars, sideVars, wakeUpLogs, form, anti, imp, sound, test>>

\* The handlers of the settings form.  A handler that sets a field writes
\* nothing to the store.
Edited(f) == [f EXCEPT !.written = <<>>, !.lastSave = "none"]

FormAdjustHour(delta) ==
    /\ form' = Edited([form EXCEPT !.hour = AdjustHour(@, delta)])
    /\ UNCHANGED <<appVars, sideVars, trig, wakeUpLogs, anti, imp, sound, test>>

FormAdjustMinute(delta) ==
    /\ form' = Edited([form EXCEPT !.minute = AdjustMinute(@, delta)])
    /\ UNCHANGED <<appVars, sideVars, trig, wakeUpLogs, anti, imp, sound, test>>

FormTogglePeriod ==
    /\ form' = Edited([form EXCEPT !.hour = TogglePeriod(@)])
    /\ UNCHANGED <<appVars, sideVars, trig, wakeUpLogs, anti, imp, sound, test>>

FormToggleDay(day) ==
    /\ form' = Edited([form EXCEPT !.selectedDays = ToggleDay(@, day)])
    /\ UNCHANGED <<appVars, sideVars, trig, wakeUpLogs, anti, imp, sound, test>>

FormSelectSteps(i) ==
    /\ form' = Edited([form EXCEPT !.requiredSteps = STEP_OPTIONS[i]])
    /\ UNCHANGED <<appVars, sideVars, trig, wakeUpLogs, anti, imp, sound, test>>

FormSetEnabled(v) ==
    /\ form' = Edited([form EXCEPT !.enabled = v])
    /\ UNCHANGED <<appVars, sideVars, trig, wakeUpLogs, anti, imp, sound, test>>

\* the Save button: saveAlarm
FormSave(ok) ==
    /\ form' = SaveForm(form, ok)
    /\ UNCHANGED <<appVars, sideVars, trig, wakeUpLogs, anti, imp, sound, test>>

\* The accelerometer listener of the improved StepDetector runs on the next
\* sample, UPDATE_INTERVAL ms after the last: at the start of a cycle the
\* walker picks the gait, then follows it.
ImpSample(gait) ==
    /\ IF imp.pos = 0
       THEN gait \in GaitsOf(imp.profile) /\ imp.cycles < CyclesOf(imp.profile)
       ELSE gait = imp.gait
    /\ LET pos == imp.pos + 1
           done == pos = GaitLength(gait)
           w == ProcessMovement(imp, MagnitudeAt(gait, pos), imp.now + UPDATE_INTERVAL)
       IN imp' = [w EXCEPT !.gait = gait,
                           !.pos = IF done THEN 0 ELSE pos,
                           !.cycles = IF done THEN @ + 1 ELSE @]
    /\ UNCHANGED <<appVars, sideVars, trig, wakeUpLogs, form, anti, sound, test>>

\* isActive goes false and true again between two cycles: stopDetection,
\* then startDetection
ImpRestart ==
    /\ imp.profile = "fidget"
    /\ imp.pos = 0
    /\ imp.samples > 0
    /\ imp.sessions < MaxSessions
    /\ imp' = [StartedImp(imp, imp.now) EXCEPT !.sessions = @ + 1]
    /\ UNCHANGED <<appVars, sideVars, trig, wakeUpLogs, form, anti, sound, test>>

\* The accelerometer listener of the anti-cheat StepDetector runs on the
\* next sample, 50 ms after the last.
AntiSample(gait) ==
    /\ IF anti.pos = 0
       THEN gait \in AntiGaitsOf(anti.profile) /\ anti.cycles < AntiCyclesOf(anti.profile)
       ELSE gait = anti.gait
    /\ LET pos == anti.pos + 1
           done == pos = AntiGaitLength(gait)
           r == ProcessAccelerometerData(anti, AbsXAt(anti.profile, pos),
                                         AntiMagnitudeAt(gait, pos),
                                         anti.now + AntiInterval)
       IN anti' = [r EXCEPT !.gait = gait,
                            !.pos = IF done THEN 0 ELSE pos,
                            !.cycles = IF done THEN @ + 1 ELSE @]
    /\ UNCHANGED <<appVars, sideVars, trig, wakeUpLogs, form, imp, sound, test>>

\* The accelerometer listener of the PedometerTest runs on the next sample,
\* 50 ms after the last.
TestSample(gait) ==
    /\ IF test.pos = 0
       THEN gait \in TestGaits /\ test.cycles < MaxErratic
       ELSE gait = test.gait
    /\ LET pos == test.pos + 1
           done == pos = TestGaitLength(gait)
           r == TestDetectStep(test, TestMagnitudeAt(gait, pos), test.now + AntiInterval)
       IN test' = [r EXCEPT !.gait = gait,
                            !.pos = IF done THEN 0 ELSE pos,
                            !.cycles = IF done THEN @ + 1 ELSE @]
    /\ UNCHANGED <<appVars, sideVars, trig, wakeUpLogs, form, anti, imp, sound>>

\* playAlarmSound after its await of Audio.setAudioModeAsync; a failure goes
\* to the catch
SetAudioModeDone(ok) ==
    /\ sound.play = "setAudioModeAsync"
    /\ sound' = [sound EXCEPT !.play = IF ok THEN "createAsync" ELSE "failed"]
    /\ UNCHANGED <<appVars, sideVars, trig, wakeUpLogs, form, anti, imp, test>>

\* playAlarmSound after its await of Audio.Sound.createAsync with
\* shouldPlay: soundRef.current = sound
CreateDone(ok) ==
    /\ sound.play = "createAsync"
    /\ sound' = IF ok
                THEN [sound EXCEPT !.play = "done", !.audio = "playing",
                                   !.soundRef = TheSound]
                ELSE [sound EXCEPT !.play = "failed"]
    /\ UNCHANGED <<appVars, sideVars, trig, wakeUpLogs, form, anti, imp, test>>

\* the StepDetector counts a step; its effect on [stepCount, targetSteps]
\* calls onTargetReached on every count at or past the target
SoundValidStep ==
    /\ sound.mounted
    /\ sound.reached < MaxCalls
    /\ LET counted == [sound EXCEPT !.stepCount = @ + 1]
       IN sound' = IF TargetReached(counted.stepCount, sound.requiredSteps)
                   THEN HandleTargetReached(counted)
                   ELSE counted
    /\ UNCHANGED <<appVars, sideVars, trig, wakeUpLogs, form, anti, imp, test>>

\* stopAlarmSound after its await of stopAsync: the sound is silent; on a
\* sound already unloaded the call throws and the catch ends stopAlarmSound
StopAsyncDone(i) ==
    /\ i \in 1..Len(sound.stops)
    /\ sound.stops[i].pc = "stopAsync"
    /\ sound' = IF sound.audio = "unloaded"
                THEN Returned([sound EXCEPT !.stops = SubSeq(@, 1, i - 1) \o
                                                      SubSeq(@, i + 1, Len(@))],
                              sound.stops[i].caller)
                ELSE [sound EXCEPT !.audio = "stopped",
                                   !.stops[i].pc = "unloadAsync"]
    /\ UNCHANGED <<appVars, sideVars, trig, wakeUpLogs, form, anti, imp, test>>

\* stopAlarmSound after its await of unloadAsync: soundRef.current = null,
\* and its caller goes on
UnloadAsyncDone(i) ==
    /\ i \in 1..Len(sound.stops)
    /\ sound.stops[i].pc = "unloadAsync"
    /\ sound' = Returned([sound EXCEPT !.audio = "unloaded",
                                       !.soundRef = NoSound,
                                       !.stops = SubSeq(@, 1, i - 1) \o
                                                 SubSeq(@, i + 1, Len(@))],
                         sound.stops[i].caller)
    /\ UNCHANGED <<appVars, sideVars, trig, wakeUpLogs, form, anti, imp, test>>

\* a setTimeout(onDismiss, 2000) fires: HomeScreen takes the AlarmScreen
\* down and the cleanup of its mount effect runs
SoundDismiss ==
    /\ sound.timers > 0
    /\ sound' = IF sound.mounted
                THEN Unmounted([sound EXCEPT !.timers = @ - 1])
                ELSE [sound EXCEPT !.timers = @ - 1]
    /\ UNCHANGED <<appVars, sideVars, trig, wakeUpLogs, form, anti, imp, test>>

\* A call of AlarmManager.logWakeUp from handleDismissAlarm, run to its end
\* before the next one starts.
LogWakeUpCall(okGet, okSet) ==
    /\ wakeUpLogs.calls < MaxLogCalls
    /\ (okGet /\ okSet) \/ wakeUpLogs.failures < MaxLogFailures
    /\ wakeUpLogs' = LogWakeUp(wakeUpLogs, wakeUpLogs.steps, wakeUpLogs.calls + 1,
                               okGet, okSet)
    /\ UNCHANGED <<appVars, sideVars, trig, form, anti, imp, sound, test>>

\* checkAvailability after its await of Pedometer.isAvailableAsync
PedAvailabilityDone(available) ==
    /\ ped.mounted
    /\ ped.checking
    /\ ped' = [ped EXCEPT !.checking = FALSE, !.isPedometerAvailable = available,
                          !.error = IF available THEN @
                                    ELSE "Pedometer is not available on this device"]
    /\ UNCHANGED <<appVars, labVars, timeUntil, det, walk, sensor, screen>>

\* checkAvailability when Pedometer.isAvailableAsync rejects
PedAvailabilityThrows ==
    /\ ped.mounted
    /\ ped.checking
    /\ ped' = [ped EXCEPT !.checking = FALSE,
                          !.error = "Error checking pedometer availability"]
    /\ UNCHANGED <<appVars, labVars, timeUntil, det, walk, sensor, screen>>

\* the callback of a live watchStepCount subscription: setCurrentStepCount
PedStepReport(steps) ==
    /\ ped.mounted
    /\ ped.live # {}
    /\ ped' = [ped EXCEPT !.currentStepCount = steps]
    /\ UNCHANGED <<appVars, labVars, timeUntil, det, walk, sensor, screen>>

\* One task of the component that uses the hook: it calls startTracking and
\* stopTracking, then React renders and commits.
PedTask(calls) ==
    /\ ped.mounted
    /\ ped.made + Starts(calls) <= MaxSubs
    /\ ped' = CommitPed(RunCalls(ped, calls, ped), ped)
    /\ UNCHANGED <<appVars, labVars, timeUntil, det, walk, sensor, screen>>

\* unmount: the cleanup of the effect on [subscription]
PedUnmount ==
    /\ ped.mounted
    /\ ped' = [ped EXCEPT !.mounted = FALSE,
                          !.live = IF ped.subscription # NoSub
                                   THEN @ \ {ped.subscription} ELSE @]
    /\ UNCHANGED <<appVars, labVars, timeUntil, det, walk, sensor, screen>>

\* The walker's magnitude rises above the threshold gap ms after the last
\* sample modelled; processMovement has pushed the samples of these ms.
PeakSample(gap) ==
    /\ sensor.live # {}
    /\ ~walk.high
    /\ walk.excursions < ExcursionsOf(walk.profile)
    /\ NotOverdue(walk.now + gap)
    /\ walk' = [walk EXCEPT !.now = @ + gap, !.high = TRUE]
    /\ det' = DetectPeak([det EXCEPT !.bufLen = PushSamples(@, SamplesIn(gap))],
                         walk'.now)
    /\ UNCHANGED <<appVars, labVars, timeUntil, ped, sensor, screen>>

\* The magnitude falls below the threshold again, duration ms later; a step
\* that counts re-renders the StepDetector and runs its effect on
\* [stepCount, targetSteps].
ValleySample(duration) ==
    /\ sensor.live # {}
    /\ walk.high
    /\ NotOverdue(walk.now + duration)
    /\ walk' = [walk EXCEPT !.now = @ + duration, !.high = FALSE,
                            !.excursions = @ + 1]
    /\ det' = DetectValley([det EXCEPT !.bufLen = PushSamples(@, SamplesIn(duration))],
                           walk'.now, walk.axes)
    /\ screen' = IF det'.stepCount # det.stepCount
                 THEN TargetEffect(screen, det'.stepCount, walk'.now)
                 ELSE screen
    /\ UNCHANGED <<appVars, labVars, timeUntil, ped, sensor>>

\* The plain parent changes the isActive prop: the cleanup of the effect on
\* [isActive] runs, then the effect; startDetection resets the session.
DetSetActive(v) ==
    /\ screen.parent = "plain"
    /\ sensor.mounted
    /\ v # sensor.isActive
    /\ v => sensor.made < MaxSessions
    /\ sensor' = ActiveEffect([EffectCleanup(sensor) EXCEPT !.isActive = v])
    /\ det' = IF v THEN InitDet ELSE det
    /\ UNCHANGED <<appVars, labVars, timeUntil, ped, walk, screen>>

\* The plain parent unmounts the StepDetector: the cleanup runs.
DetUnmount ==
    /\ screen.parent = "plain"
    /\ sensor.mounted
    /\ sensor' = [EffectCleanup(sensor) EXCEPT !.mounted = FALSE]
    /\ UNCHANGED <<appVars, labVars, timeUntil, ped, det, walk, screen>>

\* A setTimeout of handleTargetReached fires: onDismiss().  HomeScreen takes
\* the AlarmScreen down, which unmounts the StepDetector; timers set by the
\* same AlarmScreen stay pending.
DismissTimeout ==
    /\ screen.timers # {}
    /\ LET due == MinOf(screen.timers)
       IN /\ walk' = [walk EXCEPT !.now = IF @ < due THEN due ELSE @]
          /\ screen' = [screen EXCEPT !.timers = @ \ {due}, !.dismissed = @ + 1]
    /\ sensor' = IF sensor.mounted
                 THEN [EffectCleanup(sensor) EXCEPT !.mounted = FALSE]
                 ELSE sensor
    /\ UNCHANGED <<appVars, labVars, timeUntil, ped, det>>

(* --------------------------- specifications ---------------------------- *)

\* a storage operation succeeds or fails
Outcomes == {TRUE, FALSE}
Reliable == {TRUE}

\* the alarm checker: start-up, timer, foreground events, the polls
Scheduler(oks) ==
    \/ \E ok \in oks : InitLoadDone(ok)
    \/ \E next \in AppStates : AppStateChange(next)
    \/ IntervalTick
    \/ \E p \in Slots, ok \in oks : ShouldTriggerDone(p, ok)
    \/ \E p \in Slots : CheckContinue(p)
    \/ \E p \in Slots, ok \in oks : MarkLoadDone(p, ok)
    \/ \E p \in Slots, ok \in oks : MarkSetDone(p, ok)
    \/ \E p \in Slots : PresentRing(p)

\* loads that mounted settings screens started
Loads(oks) ==
    \/ \E ok \in oks : UiLoadDone(ok)
    \/ \E ok \in oks : StaleLoadDone(ok)

\* the ring and the walk that dismisses it
Walk ==
    \/ ValidStep
    \/ StopSoundDone
    \/ DismissTimerFires
    \/ BackPress

\* the user at the settings screen (time and days stay as loaded)
Settings(oks) ==
    \/ \E v \in BOOLEAN : SetEnabled(v)
    \/ \E steps \in StepChoices : SelectSteps(steps)
    \/ SavePress
    \/ \E ok \in oks : SaveDone(ok)
    \/ TestAlarmPress

ResetButton(oks) ==
    \/ ResetPress
    \/ \E ok \in oks : ResetLoadDone(ok)
    \/ \E ok \in oks : ResetSetDone(ok)

\* The app left alone over the days: the checker polls, the store may fail,
\* the screen may be torn down.
Next ==
    \/ Tick
    \/ Teardown
    \/ Scheduler(Outcomes)
    \/ Loads(Outcomes)

Spec == Init /\ [][Next]_vars

\* The app with its checker running and a store that answers: the polls of
\* every minute, the ring, the walk that dismisses it.  Every pending
\* continuation of a poll is carried out, and time passes.
NextLive ==
    \/ MinuteWithPoll
    \/ Scheduler(Reliable)
    \/ Loads(Reliable)
    \/ Walk

PollStep ==
    \/ InitLoadDone(TRUE)
    \/ \E p \in Slots : ShouldTriggerDone(p, TRUE)
    \/ \E p \in Slots : CheckContinue(p)
    \/ \E p \in Slots : MarkLoadDone(p, TRUE)
    \/ \E p \in Slots : MarkSetDone(p, TRUE)
    \/ \E p \in Slots : PresentRing(p)

SpecLive ==
    /\ Init
    /\ [][NextLive]_vars
    /\ WF_vars(PollStep)
    /\ WF_vars(MinuteWithPoll)

\* The user in front of the app during the firing minute of day 0: settings,
\* test button, walking.
InitUser ==
    /\ clock = [day |-> 0, hour |-> 6, minute |-> 0]
    /\ store \in InitStoresUser
    /\ InitApp
    /\ InitSide
    /\ InitLab

NextUser ==
    \/ Teardown
    \/ Scheduler(Outcomes)
    \/ Loads(Outcomes)
    \/ Walk
    \/ Settings(Outcomes)

SpecUser == InitUser /\ [][NextUser]_vars

\* The same with a store that never fails and a screen that stays mounted.
NextSave ==
    \/ Scheduler(Reliable)
    \/ Loads(Reliable)
    \/ Walk
    \/ Settings(Reliable)

SpecSave == InitUser /\ [][NextSave]_vars

\* The user at the settings screen with its reset button, the checker running.
NextReset ==
    \/ Scheduler(Reliable)
    \/ Loads(Reliable)
    \/ Walk
    \/ \E v \in BOOLEAN : SetEnabled(v)
    \/ SavePress
    \/ \E ok \in Reliable : SaveDone(ok)
    \/ ResetButton(Reliable)

SpecReset == InitUser /\ [][NextReset]_vars

\* getTimeUntilAlarm called at any instant with any alarm
InitQuiet ==
    /\ clock = [day |-> 0, hour |-> 6, minute |-> 0]
    /\ store = NoAlarm
    /\ InitApp
    /\ InitSide
    /\ InitLab

NextTime ==
    \E now \in TimeInstants : \E alarm \in TimeAlarms(now) :
        GetTimeUntilAlarmCall(alarm, now)

SpecTime == InitQuiet /\ [][NextTime]_vars

\* shouldTrigger called at any instant with any stored alarm
NextWindow ==
    \E now \in WindowInstants : \E alarm \in WindowAlarms(now) :
        ShouldTriggerCall(alarm, now)

SpecWindow == InitQuiet /\ [][NextWindow]_vars

\* the user at the settings form of a fresh install
NextForm ==
    \/ \E delta \in HourDeltas : FormAdjustHour(delta)
    \/ \E delta \in MinuteDeltas : FormAdjustMinute(delta)
    \/ FormTogglePeriod
    \/ \E day \in DayButtons : FormToggleDay(day)
    \/ \E i \in DOMAIN STEP_OPTIONS : FormSelectSteps(i)
    \/ \E v \in BOOLEAN : FormSetEnabled(v)
    \/ \E ok \in Reliable : FormSave(ok)

SpecForm == InitQuiet /\ [][NextForm]_vars

\* One of the two StepDetectors fed sample by sample: the app is built with
\* one of them.
AllGaits == {"stride12", "stride17", "blip", "spike"}
InitSamples ==
    /\ clock = [day |-> 0, hour |-> 6, minute |-> 0]
    /\ store = NoAlarm
    /\ InitApp
    /\ InitSide
    /\ trig = NoTrig
    /\ wakeUpLogs = InitLogs(STEP_OPTIONS[1])
    /\ form = InitForm
    /\ \/ anti = InitAnti("walk") /\ \E profile \in SampleProfiles : imp = InitImp(profile)
       \/ imp = InitImp("walk") /\ \E profile \in AntiProfiles : anti = InitAnti(profile)
    /\ sound = InitSound
    /\ test = InitTest

ImprovedRuns == anti = InitAnti("walk")
AntiCheatRuns == imp = InitImp("walk")

NextSamples ==
    \/ ImprovedRuns /\ \E gait \in AllGaits : ImpSample(gait)
    \/ ImprovedRuns /\ ImpRestart
    \/ AntiCheatRuns /\ \E gait \in AntiGaits : AntiSample(gait)

SpecSamples == InitSamples /\ [][NextSamples]_vars

\* logWakeUp called again and again, one call at a time
InitLog ==
    /\ clock = [day |-> 0, hour |-> 6, minute |-> 0]
    /\ store = NoAlarm
    /\ InitApp
    /\ InitSide
    /\ trig = NoTrig
    /\ \E steps \in StepChoices : wakeUpLogs = InitLogs(steps)
    /\ form = InitForm
    /\ anti = InitAnti("walk")
    /\ imp = InitImp("walk")
    /\ sound = InitSound
    /\ test = InitTest

NextLog == \E okGet \in Outcomes, okSet \in Outcomes : LogWakeUpCall(okGet, okSet)

SpecLog == InitLog /\ [][NextLog]_vars

\* the alarm sound of a ringing AlarmScreen
NextSound ==
    \/ \E ok \in Outcomes : SetAudioModeDone(ok)
    \/ \E ok \in Outcomes : CreateDone(ok)
    \/ SoundValidStep
    \/ \E i \in 1..MaxCalls + 1 : StopAsyncDone(i)
    \/ \E i \in 1..MaxCalls + 1 : UnloadAsyncDone(i)
    \/ SoundDismiss

InitRing ==
    /\ clock = [day |-> 0, hour |-> 6, minute |-> 0]
    /\ store = NoAlarm
    /\ InitApp
    /\ InitSide
    /\ trig = NoTrig
    /\ wakeUpLogs = InitLogs(STEP_OPTIONS[1])
    /\ form = InitForm
    /\ anti = InitAnti("walk")
    /\ imp = InitImp("walk")
    /\ \E steps \in StepChoices : sound = RingingSound(steps)
    /\ test = InitTest

SpecSound == InitRing /\ [][NextSound]_vars

\* the PedometerTest fed sample by sample
NextTest == \E gait \in TestGaits : TestSample(gait)

SpecTest == InitQuiet /\ [][NextTest]_vars

\* a component using usePedometer, through its life
NextPed ==
    \/ \E available \in BOOLEAN : PedAvailabilityDone(available)
    \/ PedAvailabilityThrows
    \/ \E steps \in StepReports : PedStepReport(steps)
    \/ \E calls \in CallBatches : PedTask(calls)
    \/ PedUnmount

SpecPed == InitQuiet /\ [][NextPed]_vars

\* A StepDetector mounted with isActive = true under either parent, and a
\* walker carrying the phone.
InitSteps ==
    /\ clock = [day |-> 0, hour |-> 6, minute |-> 0]
    /\ store = NoAlarm
    /\ InitApp
    /\ timeUntil = NoTimeUntil
    /\ ped = InitPed
    /\ det = InitDet
    \* the sideways mover is followed for the erratic profile only
    /\ \E profile \in Profiles, axes \in AxisChoices :
          /\ axes = Sideways => profile = "erratic"
          /\ walk = InitWalk(profile, axes)
    /\ sensor = ActiveEffect([NoSensor EXCEPT !.mounted = TRUE, !.isActive = TRUE])
    /\ \E parent \in Parents : screen = InitScreen(parent)
    /\ InitLab

NextSteps ==
    \/ \E gap \in Gaps(walk.profile) : PeakSample(gap)
    \/ \E duration \in Durations(walk.profile) : ValleySample(duration)
    \/ \E v \in BOOLEAN : DetSetActive(v)
    \/ DetUnmount
    \/ DismissTimeout

SpecSteps == InitSteps /\ [][NextSteps]_vars

(* ------------------------------ Properties ----------------------------- *)

C2_NoSecondTriggerToday ==
    \A p \in Slots :
        (/\ poll[p].pc = "decided"
         /\ store.present
         /\ store.lastTriggeredDate = DateString(clock.day))
        => ~poll[p].result

\* shouldTrigger read a record marked today, inside the firing window of an
\* enabled alarm scheduled for this weekday, and answered false
C2_Witness ==
    \E p \in Slots :
        /\ poll[p].pc = "decided"
        /\ poll[p].alarm = store
        /\ store.present /\ store.enabled
        /\ Weekday(clock.day) \in store.days
        /\ IsRightTime(store, clock)
        /\ store.lastTriggeredDate = DateString(clock.day)
        /\ ~poll[p].result

\* C3: shouldTrigger decides on the stored record (nothing when the record is
\* missing or the read failed) and the clock, and answers true exactly when
\* the alarm exists, is enabled, is scheduled for the weekday, is not marked
\* today, the hour is the alarm's and the minute is the alarm's or the next.
C3_ShouldTriggerExactly ==
    \A p \in Slots :
        poll[p].pc = "decided" =>
            LET a == poll[p].alarm
                n == poll[p].now
            IN /\ a \in {store, NoAlarm}
               /\ n = clock
               /\ poll[p].result <=>
                      (/\ a.present
                       /\ a.enabled
                       /\ Weekday(n.day) \in a.days
                       /\ a.lastTriggeredDate # DateString(n.day)
                       /\ n.hour = a.hour
                       /\ n.minute \in {a.minute, a.minute + 1})

\* shouldTrigger answered true in the grace minute
C3_Witness ==
    \E p \in Slots :
        /\ poll[p].pc = "decided"
        /\ poll[p].result
        /\ poll[p].now.minute = poll[p].alarm.minute + 1

\* C4: showAlarm rises only in the step of a poll that resumes after its
\* markTriggered call has returned; never while that call is pending or
\* before it was made.
C4_RingAfterMarkTriggered ==
    [][ (~showAlarm /\ showAlarm') =>
            \E p \in Slots : /\ poll[p].pc = "markDone"
                             /\ poll'[p].pc = "idle"
                             /\ \A q \in Slots \ {p} :
                                    poll[q].pc \notin {"markLoad", "markSet"} ]_vars

\* a poll has raised the ring, the record it marked is in the store
C4_Witness ==
    /\ AlarmShown
    /\ rangToday
    /\ store.present
    /\ store.lastTriggeredDate = DateString(clock.day)
    /\ Running = {}

\* C5: at the moment a poll presents the ring the stored record is marked
\* with today's date.
C5_MarkedWhenPresented ==
    \A p \in Slots :
        (poll[p].pc = "markDone" /\ mounted) =>
            (store.present /\ store.lastTriggeredDate = DateString(clock.day))

\* C6: a poll raises the ring at most once per calendar day.
C6_OneRingPerDay ==
    [][ (/\ \E p \in Slots : poll[p].pc = "markDone"
         /\ mounted
         /\ ~showAlarm
         /\ showAlarm') => ~rangToday ]_vars

\* C7: a record marked on an earlier day does not hold back the alarm: at
\* the alarm's hour and minute of a day it is scheduled for, shouldTrigger
\* answers true.
C7_EligibleAfterRollover ==
    \A p \in Slots :
        LET a == poll[p].alarm
            n == poll[p].now
        IN (/\ poll[p].pc = "decided"
            /\ a.present /\ a.enabled
            /\ a.lastTriggeredDate # NoDate
            /\ a.lastTriggeredDate # DateString(n.day)
            /\ Weekday(n.day) \in a.days
            /\ n.hour = a.hour
            /\ n.minute = a.minute)
           => poll[p].result

\* shouldTrigger answered true on a record markTriggered stamped on an
\* earlier day
C7_Witness ==
    \E p \in Slots, d \in 0..MaxDay :
        /\ poll[p].pc = "decided"
        /\ poll[p].result
        /\ d < poll[p].now.day
        /\ poll[p].alarm.lastTriggeredDate = DateString(d)
        /\ poll[p].now.minute = poll[p].alarm.minute

\* C8: at most one execution of checkAlarmTime is past the guard, and the
\* flag is set exactly while one is.
C8_OnePollAtATime ==
    /\ Cardinality(Running) <= 1
    /\ isCheckingRef <=> (Running # {})

\* a poll that triggered has finished with the timer live: the flag is clear
\* again
C8_Witness ==
    /\ rangToday
    /\ checkIntervalRef
    /\ Running = {}
    /\ ~isCheckingRef

\* C9: while the ring is presented no call of checkAlarmTime passes the
\* guard.
C9_NoPollDuringRing ==
    [][ showAlarm =>
            \A p \in Slots : poll[p].pc = "idle" => poll'[p].pc = "idle" ]_vars

\* C10: once HomeScreen is torn down no interval timer is live and no
\* execution of checkAlarmTime starts.
C10_NothingAfterTeardown ==
    [][ ~mounted' =>
            /\ ~checkIntervalRef'
            /\ \A p \in Slots : poll[p].pc = "idle" => poll'[p].pc = "idle" ]_vars

\* C16: when the alarm's time of today is at or before now, or the alarm is
\* marked today, getTimeUntilAlarm counts down to the alarm's hour:minute on
\* the first of the next 7 days whose weekday is scheduled, and its hours,
\* minutes and seconds add up to that countdown.
C16_CountdownToNextScheduledDay ==
    LET a == timeUntil.alarm
        n == timeUntil.now
        r == timeUntil.result
        nowSec == SecondsAt(n.day, n.hour, n.minute, n.second)
    IN (/\ timeUntil.called
        /\ a.days # {}
        /\ \/ SecondsAt(n.day, a.hour, a.minute, 0) <= nowSec
           \/ a.lastTriggeredDate = DateString(n.day))
       => LET k == CHOOSE i \in 1..7 :
                       /\ Weekday(n.day + i) \in a.days
                       /\ \A j \in 1..(i - 1) : Weekday(n.day + j) \notin a.days
              total == SecondsAt(n.day + k, a.hour, a.minute, 0) - nowSec
          IN /\ r.totalSeconds = total
             /\ r.hours * 3600 + r.minutes * 60 + r.seconds = total
             /\ r.minutes \in 0..59
             /\ r.seconds \in 0..59

\* Monday 07:00 with a 06:30 Monday-to-Friday alarm: 23 h 30 min
C16_Witness ==
    /\ timeUntil.called
    /\ Weekday(timeUntil.now.day) = 1
    /\ timeUntil.now.hour = 7 /\ timeUntil.now.minute = 0 /\ timeUntil.now.second = 0
    /\ timeUntil.alarm.hour = 6 /\ timeUntil.alarm.minute = 30
    /\ timeUntil.alarm.days = {1, 2, 3, 4, 5}
    /\ timeUntil.result.hours = 23
    /\ timeUntil.result.minutes = 30
    /\ timeUntil.result.seconds = 0

\* C17: for an alarm with no scheduled day getTimeUntilAlarm returns no
\* countdown to a date.
C17_NoCountdownWithoutDays ==
    (timeUntil.called /\ timeUntil.alarm.days = {})
        => timeUntil.result.totalSeconds <= 0

\* C20: a failed store call gives the caller of loadAlarm, saveAlarm and
\* markTriggered an outcome other than the one of a successful call: a
\* failed load differs from "nothing stored", a failed save or mark from a
\* completed one.
C20_FailureDistinguishable ==
    /\ \A p \in Slots :
           (poll[p].pc \in {"shouldLoad", "markLoad"} /\ ~store.present)
               => LoadAlarm(FALSE) # LoadAlarm(TRUE)
    /\ \A p \in Slots :
           poll[p].pc = "markSet"
               => MarkTriggeredOutcome(FALSE) # MarkTriggeredOutcome(TRUE)
    /\ saves # <<>> => SaveAlarmOutcome(FALSE) # SaveAlarmOutcome(TRUE)

\* C19: once the calls of startTracking and stopTracking made so far end
\* with stopTracking, or the component is unmounted, no step-count
\* subscription is live.
C19_StopReleasesEverything ==
    (ped.lastCall = "stop" \/ ~ped.mounted) => ped.live = {}


\* C11: the improved StepDetector counts a step only when the excursion
\* lasted between 50 and 400 ms (valley time minus lastPeakTime) and at least
\* MIN_STEP_INTERVAL ms passed since the step counted before it; the recorded
\* times of the counted steps of a session are at least that far apart.
C11_StepOnlyInsideWindow ==
    [][det'.stepCount > det.stepCount =>
        /\ walk'.now - det.lastPeakTime >= 50
        /\ walk'.now - det.lastPeakTime <= 400
        /\ walk'.now - det.lastStepTime >= MIN_STEP_INTERVAL
        /\ \A k \in 1..(Len(det'.stepTimes) - 1) :
              det'.stepTimes[k + 1] - det'.stepTimes[k] >= MIN_STEP_INTERVAL]_vars

\* an erratic walker got steps counted and excursions rejected
C11_Witness ==
    /\ walk.profile = "erratic"
    /\ det.stepCount >= 2
    /\ walk.excursions > det.stepCount

\* C12: while the vertical axis carries more than 85% of the movement
\* variance, no step is counted: not the first steps of a session either.
C12_VerticalNeverCounts == walk.axes = Vertical => det.stepCount = 0

\* C13: ten excursions 500 ms apart with at most 5% jitter, each lasting
\* between 50 and 400 ms, with lateral movement, in one session, give
\* exactly ten counted steps.
C13_TenSteadyStepsCount ==
    (/\ walk.profile = "steady"
     /\ walk.axes = Lateral
     /\ sensor.made = 1
     /\ sensor.live # {}
     /\ walk.excursions = 10
     /\ ~walk.high) => det.stepCount = 10

\* C14: within one ring of the AlarmScreen the target is delivered once:
\* onTargetReached and onDismiss are called once, also when more steps are
\* counted after the target and before the screen is taken down.
C14_TargetDeliveredOnce ==
    screen.parent = "alarm" => screen.reached <= 1 /\ screen.dismissed <= 1

\* C15: within a session the count never decreases and grows by at most one
\* per sample; it returns to 0 only through startDetection.
C15_CountMonotone ==
    [][/\ det'.stepCount <= det.stepCount + 1
       /\ det'.stepCount < det.stepCount =>
             det'.stepCount = 0 /\ sensor'.made = sensor.made + 1]_vars

\* a second session counts again after the first one reached the target
C15_Witness ==
    /\ sensor.made = 2
    /\ screen.reached >= 1
    /\ det.stepCount >= 1

\* C18: at most one accelerometer subscription is live, none while isActive
\* is false or after the unmount, and stopDetection without a subscription
\* changes nothing.
C18_OneSubscription ==
    /\ Cardinality(sensor.live) <= 1
    /\ (~sensor.isActive \/ ~sensor.mounted) => sensor.live = {}
    /\ sensor.subscriptionRef = NoSub => StopDetection(sensor) = sensor

\* isActive went false and true again, then the StepDetector was unmounted
C18_Witness ==
    /\ sensor.made = 2
    /\ sensor.isActive
    /\ ~sensor.mounted


\* C21: the stored lastTriggeredDate changes only in the trigger path, when
\* the setItem of markTriggered lands; saving the settings, disabling the
\* alarm and the reset button leave the stored value alone.
C21_OnlyTriggerPathMarks ==
    [][store'.lastTriggeredDate # store.lastTriggeredDate =>
          \E p \in Slots : poll[p].pc = "markSet" /\ poll'[p].pc = "markDone"]_vars


\* C26: for an enabled alarm scheduled today and not triggered today,
\* shouldTrigger returns true at every instant of the configured minute and
\* of the minute after it, also when that minute belongs to the next hour.
C26_FiringWindowTwoMinutes ==
    LET a == trig.alarm
        n == trig.now
    IN (/\ trig.called
        /\ a.present /\ a.enabled
        /\ Weekday(n.day) \in a.days
        /\ a.lastTriggeredDate # DateString(n.day)
        /\ MinuteOfDay(n) - MinuteOfDay(a) \in {0, 1})
       => trig.result

\* C27: for an alarm with at least one scheduled day, the instant
\* getTimeUntilAlarm counts down to falls on a weekday of alarm.days.
C27_CountdownEndsOnScheduledDay ==
    LET n == timeUntil.now
        target == SecondsAt(n.day, n.hour, n.minute, n.second)
                      + timeUntil.result.totalSeconds
    IN (timeUntil.called /\ timeUntil.alarm.days # {})
       => Weekday(target \div SecondsPerDay) \in timeUntil.alarm.days


\* C23: after any sequence of logWakeUp calls that do not overlap, the stored
\* log holds at most 30 entries: the most recent entries logged (those whose
\* write landed), in the order they were logged.
C23_LogKeepsLastThirty ==
    LET n == Len(wakeUpLogs.logged)
        k == IF n < 30 THEN n ELSE 30
    IN /\ Len(wakeUpLogs.stored) = k
       /\ \A i \in 1..k : wakeUpLogs.stored[i] = wakeUpLogs.logged[n - k + i]
       /\ \A i \in 1..(k - 1) : wakeUpLogs.stored[i].date < wakeUpLogs.stored[i + 1].date

\* more than 30 entries were logged: the oldest ones are gone
C23_Witness ==
    /\ Len(wakeUpLogs.logged) > 30
    /\ wakeUpLogs.failures > 0
    /\ Len(wakeUpLogs.stored) = 30
    /\ wakeUpLogs.stored[1] # wakeUpLogs.logged[1]


\* C25: when the step sensor is unavailable, startTracking sets the error
\* and starts nothing: no subscription is made, isTracking stays false and
\* the step count stays as it was.
C25_UnavailableStartsNothing ==
    (ped.lastCall # "none" /\ ~ped.checking /\ ~ped.isPedometerAvailable)
        => /\ ped.made = 0 /\ ped.live = {} /\ ped.subscription = NoSub
           /\ ~ped.isTracking
           /\ ped.currentStepCount = 0
           /\ ped.lastCall = "start" => ped.error # NoError

\* startTracking was called on a device without the sensor
C25_Witness ==
    /\ ped.lastCall = "start"
    /\ ~ped.checking
    /\ ~ped.isPedometerAvailable
    /\ ped.error = "Pedometer not available"


\* C24: every record the settings screen's saveAlarm writes has
\* requiredSteps > 0, hour in 0..23, minute in 0..59 and a non-empty days
\* array without duplicates; a save with no day selected writes nothing.
C24_WrittenRecordValid ==
    /\ \A k \in 1..Len(form.written) :
          LET a == form.written[k]
          IN /\ a.requiredSteps > 0
             /\ a.hour \in 0..23
             /\ a.minute \in 0..59
             /\ Len(a.days) > 0
             /\ \A i \in 1..Len(a.days) : \A j \in 1..Len(a.days) :
                   i # j => a.days[i] # a.days[j]
    /\ form.lastSave = "written" => Len(form.written) = 1
    /\ form.lastSave = "refused" => form.written = <<>>
    /\ Len(form.selectedDays) = 0 => form.lastSave \in {"none", "refused"}

\* a record was written after the minute went below 0 and the hour past
\* noon, with Sunday added in front and Monday and Tuesday switched off
C24_Witness ==
    /\ form.lastSave = "written"
    /\ form.written[1].hour = 18
    /\ form.written[1].minute = 55
    /\ form.written[1].days = <<0, 3, 4, 5>>
    /\ form.written[1].requiredSteps = STEP_OPTIONS[5]


\* C28: the improved StepDetector enters the above-threshold state only on a
\* sample with magnitude > threshold and magnitude - baseline > 0.12, and
\* counts a step only on a sample that takes it from above the threshold to
\* below; no sample does both, and no more steps are counted than samples
\* entered the above-threshold state.
C28_PeakThenValley ==
    [][imp'.samples = imp.samples + 1 =>
        LET m == imp'.arrived[Len(imp'.arrived)]
            b == imp'.baseline
        IN /\ (~imp.d.isInStep /\ imp'.d.isInStep) =>
                  /\ m * 100 * b[2] > 108 * b[1]
                  /\ m * b[2] - b[1] > 12 * b[2]
                  /\ imp'.d.stepCount = imp.d.stepCount
           /\ imp'.d.stepCount # imp.d.stepCount =>
                  /\ imp.d.isInStep /\ ~imp'.d.isInStep
                  /\ m * 100 * b[2] < 108 * b[1]
                  /\ imp'.d.stepCount = imp.d.stepCount + 1
           /\ imp'.d.stepCount <= imp'.peaks]_vars

\* steps were counted although weak and short peaks came in between
C28_Witness ==
    /\ imp.profile = "fidget"
    /\ imp.d.stepCount >= 2
    /\ imp.peaks > imp.d.stepCount
    /\ \E k \in 1..Len(imp.arrived) : imp.arrived[k] = 111

\* C29: the baseline is 1.0 for the first 9 samples of a session and from
\* the 10th on the mean of the at most 30 most recent magnitudes; the
\* threshold is baseline * 1.08.
C29_BaselineIsWindowMean ==
    LET window == LastOf(imp.arrived, 30)
    IN /\ imp.samples = Len(imp.arrived)
       /\ imp.samples < 10 => imp.baseline[1] * 1 = 100 * imp.baseline[2]
       /\ imp.samples >= 10 =>
             imp.baseline[1] * Len(window) = SumSeq(window) * imp.baseline[2]
       /\ imp.threshold[1] * 100 * imp.baseline[2]
              = 108 * imp.baseline[1] * imp.threshold[2]

\* a second session has gone past 30 samples with peaks in its window
C29_Witness ==
    /\ imp.sessions = 2
    /\ imp.samples > 30
    /\ imp.baseline[1] > 100 * imp.baseline[2]


\* C30: in the anti-cheat StepDetector a raw step after a pause longer than
\* MAX_STEP_INTERVAL resets the rhythm tracking: once it has been processed,
\* the rhythm history holds no interval longer than MAX_STEP_INTERVAL.
C30_NoLongIntervalKept ==
    \A i \in 1..Len(anti.stepIntervals) : anti.stepIntervals[i] <= MAX_STEP_INTERVAL


\* C22: the rolling histories of the two StepDetectors never exceed their
\* bounds and hold the most recent values in the order of their arrival:
\* 30 magnitudes and 30 movement samples, 10 accepted step times; 20 values
\* of |x|, 50 samples and 10 step intervals.
MostRecent(history, arrivals, bound) ==
    /\ Len(history) <= bound
    /\ Len(history) = MinOf({Len(arrivals), bound})
    /\ history = LastOf(arrivals, bound)
\* the samples arrive one sampling interval apart, the last one at `now`
MostRecentSamples(timestamps, samples, now, interval, bound) ==
    /\ Len(timestamps) <= bound
    /\ Len(timestamps) = MinOf({samples, bound})
    /\ \A i \in 1..Len(timestamps) :
          timestamps[i] = now - (Len(timestamps) - i) * interval
C22_HistoriesBounded ==
    /\ MostRecent(imp.magnitudeHistory, imp.arrived, 30)
    /\ MostRecentSamples(imp.movementBuffer, imp.samples, imp.now,
                         UPDATE_INTERVAL, 30)
    /\ MostRecent(imp.d.stepTimes, imp.counted, 10)
    /\ MostRecent(anti.xMovementHistory, anti.xArrived, 20)
    /\ MostRecentSamples([i \in 1..Len(anti.stepData) |-> anti.stepData[i].timestamp],
                         anti.samples, anti.now, AntiInterval, 50)
    /\ Len(anti.stepIntervals) <= 10
    /\ anti.stepIntervals = LastOf(anti.intervalsArrived, Len(anti.stepIntervals))
C22_Witness ==
    /\ anti.samples > 50
    /\ Len(anti.intervalsArrived) > 10
    /\ Len(anti.stepIntervals) = 10


\* a sample of the anti-cheat StepDetector on which a raw step was detected,
\* and the interval of that step
RawStepTaken == anti'.stepCount = anti.stepCount + 1
RawStepInterval == anti'.now - anti.lastStepTime

\* C31: in the anti-cheat StepDetector a raw step with an interval from 300
\* to MAX_STEP_INTERVAL ms is not counted as valid whenever the mean of the
\* recorded |x| values, at most the 20 most recent, is below MIN_X_MOVEMENT,
\* whatever the rhythm history holds.
C31_LowSwayRejected ==
    [][(/\ RawStepTaken
        /\ RawStepInterval >= 300 /\ RawStepInterval <= MAX_STEP_INTERVAL
        /\ Len(anti'.xMovementHistory) <= 20
        /\ SumSeq(anti'.xMovementHistory) < MIN_X_MOVEMENT * Len(anti'.xMovementHistory))
       => /\ anti'.validStepCount = anti.validStepCount
          /\ anti'.xMovementHistory = LastOf(anti'.xArrived, 20)]_vars
\* a bouncing walker: raw steps with steady and with uneven rhythm, more
\* than three of them, none counted
C31_Witness ==
    /\ anti.profile = "bounce"
    /\ anti.stepCount > 3
    /\ anti.validStepCount = 0
    /\ \E i \in 1..Len(anti.stepIntervals) : anti.stepIntervals[i] # anti.stepIntervals[1]
    /\ \A i \in 1..Len(anti.stepIntervals) : anti.stepIntervals[i] <= MAX_STEP_INTERVAL


\* a valley sample of the improved StepDetector that reaches
\* validateStepPattern: a candidate step
ImpCandidate ==
    /\ imp'.samples = imp.samples + 1
    /\ imp.d.isInStep /\ ~imp'.d.isInStep
    /\ DurationOk(imp'.now - imp.d.lastPeakTime)
    /\ ~TooFast(imp'.now - imp.d.lastStepTime)
\* a raw step of the anti-cheat StepDetector that reaches the rhythm check
AntiCandidate ==
    /\ RawStepTaken
    /\ RawStepInterval <= MAX_STEP_INTERVAL
    /\ ~LowSway(anti'.xMovementHistory)

\* C32: once at least 3 intervals are recorded, a candidate step is rejected
\* exactly when the rhythm score is below 0.05 or above the maximum (0.6 in
\* the improved detector, 0.5 in the anti-cheat detector); with fewer than 3
\* intervals no step is rejected for its rhythm.
C32_RhythmBand ==
    [][/\ ImpCandidate =>
            LET cv == CalculateRhythmVariance(imp.d.stepTimes)
            IN IF Len(imp.d.stepTimes) >= 4
               THEN (imp'.d.stepCount = imp.d.stepCount)
                        <=> (Below(cv, 5, 100) \/ Above(cv, 60, 100))
               ELSE imp'.d.stepCount = imp.d.stepCount + 1
       /\ AntiCandidate =>
            LET cv == RhythmScore(anti.stepIntervals)
            IN IF Len(anti.stepIntervals) >= 3
               THEN (anti'.validStepCount = anti.validStepCount)
                        <=> (Below(cv, 5, 100) \/ Above(cv, 50, 100))
               ELSE anti'.validStepCount = anti.validStepCount + 1]_vars

\* C34: in the anti-cheat StepDetector every raw step, rejected or accepted,
\* grows the raw counter, appends its interval to the rhythm history and
\* moves lastStepTime to the sample's time; the valid count grows by one or
\* stays, and a sample without a raw step changes none of them.
C34_RejectedStepFeedsHistory ==
    [][IF RawStepTaken
       THEN /\ anti'.stepIntervals # <<>>
            /\ anti'.stepIntervals[Len(anti'.stepIntervals)] = RawStepInterval
            /\ anti'.intervalsArrived = Append(anti.intervalsArrived, RawStepInterval)
            /\ anti'.lastStepTime = anti'.now
            /\ anti'.validStepCount \in {anti.validStepCount, anti.validStepCount + 1}
       ELSE /\ anti'.stepCount = anti.stepCount
            /\ anti'.validStepCount = anti.validStepCount
            /\ anti'.stepIntervals = anti.stepIntervals
            /\ anti'.lastStepTime = anti.lastStepTime]_vars
\* the sample just processed was a raw step; steps were rejected and steps
\* were accepted, and each of them left its interval
C34_Witness ==
    /\ anti.stepCount > anti.validStepCount + 1
    /\ anti.validStepCount > 1
    /\ anti.lastStepTime = anti.now
    /\ Len(anti.intervalsArrived) = anti.stepCount


\* what a session of the anti-cheat StepDetector counts and keeps for the
\* next steps, the walking confidence left out
Counting(r) ==
    <<r.stepCount, r.validStepCount, r.stepIntervals, r.lastStepTime,
      r.isAboveThreshold, r.xMovementHistory, r.stepData>>
\* the session r with another walking confidence
WithConfidence(r, c) == [r EXCEPT !.consecutiveGoodSteps = c]
\* below and at REQUIRED_CONSISTENT_STEPS
ConfidenceValues == {0, 3}

\* C36: the walking confidence (consecutiveGoodSteps) never influences what
\* is counted: a session that differs only in it counts the same on the same
\* sample.  The counter is reset to 0 by every rejection and every rhythm
\* reset, grows by 1 on every step that passes all checks, and is left alone
\* by a sample without a raw step.
C36_ConfidenceOnlyObserved ==
    [][(anti'.samples = anti.samples + 1) =>
        /\ \A c \in ConfidenceValues :
              Counting(ProcessAccelerometerData(
                          WithConfidence(anti, c),
                          anti'.xArrived[Len(anti'.xArrived)],
                          anti'.stepData[Len(anti'.stepData)].magnitude,
                          anti'.now)) = Counting(anti')
        /\ IF ~RawStepTaken
           THEN anti'.consecutiveGoodSteps = anti.consecutiveGoodSteps
           ELSE IF \/ anti'.validStepCount = anti.validStepCount
                   \/ RawStepInterval > MAX_STEP_INTERVAL
           THEN anti'.consecutiveGoodSteps = 0
           ELSE anti'.consecutiveGoodSteps = anti.consecutiveGoodSteps + 1]_vars
\* a stroller whose confidence was reset by a rejection after three steps
\* had been counted
C36_Witness ==
    /\ anti.profile = "stroll"
    /\ anti.consecutiveGoodSteps = 0
    /\ anti.validStepCount >= 3
    /\ anti.stepCount > anti.validStepCount
    /\ anti.lastStepTime = anti.now


\* a valley of the walker that reaches validateStepPattern
ValleyCandidate ==
    /\ walk.high /\ ~walk'.high
    /\ det.isInStep
    /\ DurationOk(walk'.now - det.lastPeakTime)
    /\ ~TooFast(walk'.now - det.lastStepTime)
\* one axis, whichever, has more than 85% of the combined variance
OneAxisDominates(axes) ==
    \E k \in 1..3 : 100 * axes[k] > 85 * (axes[1] + axes[2] + axes[3])

\* C33: in the improved StepDetector, with at least 10 samples buffered and
\* at least 3 steps accepted, a candidate step is rejected whenever one
\* single axis, whichever it is, has more than 85% of the combined variance
\* of the last 15 buffered samples.
C33_AnyDominantAxisRejected ==
    [][(/\ ValleyCandidate
        /\ det'.bufLen >= 10
        /\ Len(det.stepTimes) >= 3
        /\ OneAxisDominates(walk.axes))
       => det'.stepCount = det.stepCount]_vars


\* the refs after one more excursion of a walker who moves in all axes: the
\* magnitude rises gap ms after `now` and falls duration ms later
Excursion(d, now, gap, duration) ==
    LET up == DetectPeak([d EXCEPT !.bufLen = PushSamples(@, SamplesIn(gap))],
                         now + gap)
    IN DetectValley([up EXCEPT !.bufLen = PushSamples(@, SamplesIn(duration))],
                    now + gap + duration, Lateral)
AllGaps == UNION {Gaps(profile) : profile \in Profiles}
AllDurations == UNION {Durations(profile) : profile \in Profiles}
\* some continuation of one or two excursions gets a step counted
Recovers(d, now) ==
    \E g1 \in AllGaps, d1 \in AllDurations :
        LET a == Excursion(d, now, g1, d1)
        IN \/ a.stepCount > d.stepCount
           \/ \E g2 \in AllGaps, d2 \in AllDurations :
                 Excursion(a, now + g1 + d1, g2, d2).stepCount > d.stepCount

\* C35: in the improved StepDetector a rejection by validateStepPattern is
\* never permanent: after every rejected candidate step there is a
\* continuation of samples in the same session that gets a step counted.
C35_RejectionRecoverable ==
    [][(ValleyCandidate /\ det'.stepCount = det.stepCount)
       => Recovers(det', walk'.now)]_vars


\* what a settings save decides of the stored record
SavedSettings(alarm) ==
    <<alarm.present, alarm.hour, alarm.minute, alarm.days, alarm.requiredSteps,
      alarm.enabled>>

\* C37: a completed settings saveAlarm is never undone by a concurrent
\* markTriggered or resetTriggeredStatus: the stored hour, minute, days,
\* requiredSteps and enabled change only when a saveAlarm completes, so they
\* are those of the last completed saveAlarm.
C37_SaveNeverUndone ==
    [][saves' = saves => SavedSettings(store') = SavedSettings(store)]_vars


\* C38: after the alarm screen has been dismissed and unmounted and every
\* call in flight has ended, no alarm sound is playing or held, whatever the
\* order of the sound's creation, target-reached and the unmount.
C38_SilentAfterUnmount ==
    (/\ ~sound.mounted
     /\ sound.play \in {"done", "failed"}
     /\ sound.stops = <<>>)
    => (sound.audio # "playing" /\ sound.soundRef = NoSound)

\* C40: in the PedometerTest a crossing from above to below the threshold
\* counts as a step only when the time since the last counted step is at
\* least 250 ms and at most 2000 ms.
C40_StepTimingWindow ==
    \A i \in 1..Len(test.counted) :
        test.counted[i] >= 250 /\ test.counted[i] <= 2000


\* the stored alarm is due: enabled, scheduled today, not triggered today,
\* inside its firing window, and the alarm checker is running
Due ==
    /\ checkIntervalRef
    /\ ShouldTriggerFlag(store, clock)

\* C39: while the checker runs and the store answers, a due alarm leads to
\* the ring (showAlarm true), and it does so before the firing window of
\* the day ends; the in-progress flag is set only while a poll is in
\* flight, so no poll is skipped because the flag is stuck.
C39_DueAlarmRings ==
    /\ Due ~> showAlarm
    /\ [][(Due /\ ~showAlarm) => IsRightTime(store, clock')]_vars
    /\ [](isCheckingRef => Running # {})
\* the ring of a later day is up, raised by a poll inside the window, and
\* the record is marked with that day
C39_Witness ==
    /\ clock.day > 0
    /\ showAlarm
    /\ rangToday
    /\ store.present /\ store.enabled
    /\ store.lastTriggeredDate = DateString(clock.day)
    /\ IsRightTime(store, clock)

=============================================================================
